---- MODULE Spec2Model ----
(***************************************************************************)
(* Model of the DIMO enclave-bridge: the host-side bridge (CreateBridge,   *)
(* completeHandshake, Bridge.Run and the goroutines it spawns), the        *)
(* watchdog server (StartServerSide, startTicker, HandleConn) and the      *)
(* enclave-side handshake client (BridgeHandshake).                        *)
(*                                                                         *)
(* Connections are byte streams.  A byte is a number; a JSON text (which   *)
(* never contains a raw line feed) is carried as one number above 255.     *)
(* Every wire element is a pair <<byte, tag>>; the tag is bookkeeping that *)
(* remembers which frame a peer closed with that byte and is never read by *)
(* the modelled code.                                                      *)
(*                                                                         *)
(* Timer semantics are those of Go 1.23 and later (README: Go 1.24 or      *)
(* higher): Ticker.Reset discards a tick that was not yet received.        *)
(***************************************************************************)
EXTENDS Integers, Sequences, FiniteSets, TLC

\* ------------------------------------------------------------------ bounds
MaxConns == 2
MaxInterval == 2
MaxServers == 1
MaxClients == 1
MaxWire == 6
MaxAcceptErrs == 1
MaxStrayFrames == 2
MaxWdFrames == 3
MaxPayload == 2
MaxReadLen == 3
MaxHbConns == 2
MaxHbWire == 3
MaxFaults == 1

\* --------------------------------------------------------- wire constants
LF == 10
ACKByte == 6
ACK == <<ACKByte, LF>>

NoTag == 0 - 1
AckTag == 0 - 2

\* JSON texts, carried as one token each
EnvDoc == 256 + 1
BadDoc == 256 + 2
DocBase == 256 + 16

\* enclave IDs: index 0 is uuid.Nil, index 2 contains the delimiter byte
IdIdx == 0 .. 2
NilID == <<0, 0>>
IdLen == Len(NilID)
IdOf(i) == IF i = 0 THEN NilID ELSE IF i = 1 THEN <<1, 1>> ELSE <<1, LF>>

ConnIds == 1 .. MaxConns
Servers == { <<"server", i>> : i \in 1 .. MaxServers }
Clients == { <<"client", i>> : i \in 1 .. MaxClients }
Tunnels == Servers \cup Clients

\* ------------------------------------------------------------- settings
\* config.BridgeSettings as the current struct declares it (no error field)
BridgeSettings ==
  [ id : IdIdx, interval : 0 .. MaxInterval, servers : 0 .. MaxServers,
    clients : 0 .. MaxClients, level : 0 .. 1 ]

\* a JSON object on the wire may also carry an "error" key
SettingsJSON ==
  [ id : IdIdx, interval : 0 .. MaxInterval, servers : 0 .. MaxServers,
    clients : 0 .. MaxClients, level : 0 .. 1, error : 0 .. 1 ]

ZeroSettings == [ id |-> 0, interval |-> 0, servers |-> 0, clients |-> 0, level |-> 0 ]

\* the token of a JSON object: a mixed-radix number over its fields
JSONEncode(o) ==
  DocBase + o.error
    + 2 * (o.level
    + 2 * (o.clients
    + (MaxClients + 1) * (o.servers
    + (MaxServers + 1) * (o.interval
    + (MaxInterval + 1) * o.id))))

IsSettingsDoc(tok) ==
  /\ tok >= DocBase
  /\ tok < DocBase + 2 * 2 * (MaxClients + 1) * (MaxServers + 1) * (MaxInterval + 1) * Cardinality(IdIdx)

\* json.Marshal(bridgeConfig): the struct has no error field to emit
Marshal(s) ==
  JSONEncode([ id |-> s.id, interval |-> s.interval, servers |-> s.servers,
               clients |-> s.clients, level |-> s.level, error |-> 0 ])

\* json.Unmarshal(configBytes, &settings): keys without a struct field are dropped
Unmarshal(tok) ==
  LET n0 == tok - DocBase
      n1 == n0 \div 2
      n2 == n1 \div 2
      n3 == n2 \div (MaxClients + 1)
      n4 == n3 \div (MaxServers + 1)
  IN  [ level    |-> n1 % 2,
        clients  |-> n2 % (MaxClients + 1),
        servers  |-> n3 % (MaxServers + 1),
        interval |-> n4 % (MaxInterval + 1),
        id       |-> n4 \div (MaxInterval + 1) ]

\* the "error" key of the JSON object, which the struct cannot hold
ErrorKey(tok) == (tok - DocBase) % 2

\* a line parses as BridgeSettings iff it is one settings object and the delimiter
ParsesAsSettings(line) ==
  /\ Len(line) = 2
  /\ line[2] = LF
  /\ IsSettingsDoc(line[1])

\* a line parses as map[string]string iff it is the environment object
ParsesAsEnv(line) ==
  /\ Len(line) = 2
  /\ line[2] = LF
  /\ line[1] = EnvDoc

\* ----------------------------------------------------------------- wires
Tagged(bytes, tag) ==
  [ i \in 1 .. Len(bytes) |-> <<bytes[i], IF i = Len(bytes) THEN tag ELSE NoTag>> ]

Bytes(w) == [ i \in 1 .. Len(w) |-> w[i][1] ]

HasLF(w) == \E i \in 1 .. Len(w) : w[i][1] = LF

FirstLF(w) == CHOOSE i \in 1 .. Len(w) : w[i][1] = LF /\ \A j \in 1 .. (i - 1) : w[j][1] # LF

\* the 17-byte heartbeat frame, here IdLen bytes and the delimiter
HeartbeatFrame(i) == IdOf(i) \o <<LF>>

\* uuid.FromBytesOrNil
FromBytesOrNil(b) == IF Len(b) = IdLen THEN b ELSE NilID

\* ReadBytesWithContext over a fresh bufio.Reader: the results the call can
\* return.  k is the number of bytes the reader pulled from the socket; bytes
\* pulled beyond the first delimiter die with the reader.
\*   data  : (line, nil)          err : (partial, read error)
\*   ctx   : (nil, ctx.Err())     nilnil : (nil, nil), both channels closed unsent
ReadResults(w, peerClosed, ctxDone) ==
  LET complete ==
        IF HasLF(w)
          THEN { [ kind |-> "data", line |-> Bytes(SubSeq(w, 1, FirstLF(w))), k |-> k ] :
                   k \in FirstLF(w) .. Len(w) }
          ELSE IF peerClosed
                 THEN { [ kind |-> "err", line |-> Bytes(w), k |-> Len(w) ] }
                 ELSE {}
  IN  IF ctxDone
        THEN { [ kind |-> "ctx", line |-> <<>>, k |-> 0 ] }
             \cup { [ kind |-> "nilnil", line |-> <<>>, k |-> r.k ] : r \in complete }
        ELSE complete

\* WriteWithContext 30-63: res is what the call returns, wrote whether the bytes
\* reached the peer.  A write to a connection the peer has closed may fail or
\* be accepted by the socket and lost.  With the context done the select may
\* return ctx.Err() before the goroutine has written (54-57); the callers on
\* the bridge close the connection at once, so that write is never made.  A
\* write error is not sent once the context is done (47-49): the call returns
\* nil from the closed channel.
WriteResults(peerOpen, ctxDone) ==
  LET under == IF peerOpen THEN { [ res |-> "ok", wrote |-> TRUE ] }
                           ELSE { [ res |-> "err", wrote |-> FALSE ],
                                  [ res |-> "ok", wrote |-> FALSE ] }
  IN  IF ctxDone
        THEN { [ res |-> "ctx", wrote |-> b ] : b \in (IF peerOpen THEN BOOLEAN ELSE { FALSE }) }
             \cup { [ res |-> "ok", wrote |-> u.wrote ] : u \in under }
        ELSE under

\* ------------------------------------------------------------------ state
VARIABLES
  env,          \* "coop": the bridge and this repository's enclave client; "hostile": the bridge and any peer, faults of
                \* Listen and Accept allowed; "rogue": the enclave client and a peer on the init port that is not the bridge
  settingsIn,   \* the settings object the peer sends in step 3
  sentOther,    \* some peer has written a frame that is not a heartbeat with the expected ID
  cleanCancel,  \* the context was cancelled while the watchdog had no tick and no unhandled frame
  hsFault,      \* a read of CreateBridge has failed on its deadline, or the enclave application has closed the handshake
  budget,       \* frames stray peers may still write
  ctxDone,      \* the bridge's parent context is cancelled
  listener,     \* the init-port listener: "none", "open", "closed"
  backlog,      \* connections dialed to the init port and not yet accepted
  nconn,        \* connections dialed so far
  owner,        \* who dialed a connection: "none", "enclave", "stray"
  est,          \* peer end of a connection: "none", "open", "closed"
  bst,          \* bridge end of a connection: "none", "queued", "open", "closed"
  e2b,          \* bytes in flight towards the bridge
  b2e,          \* bytes in flight towards the peer
  bpc,          \* where CreateBridge / Bridge.Run stands
  hsConn,       \* the connection CreateBridge accepted (0: none)
  settings,     \* Bridge.settings
  bridgeErr,    \* the error CreateBridge or Run returned ("none": none)
  bridgeListener, \* Bridge.listener: "nil" or "init"
  acceptErrs,   \* accept errors logged so far
  tunnel,       \* tunnel goroutine: "none", "spawned", "listening", "serving" (has accepted), "failed", "stopped"
  groupErr,     \* first error of the errgroup ("none": none)
  tunnelErrs,   \* accept errors, other than the closing of the listener, each tunnel's Accept has returned
  proxyClosed,  \* server tunnel: its shutdown goroutine has made its one call of proxy.Close
  ackSent,      \* the final ACK was written to the handshake connection
  wdState,      \* watchdog server: "none", "spawned", "running", "returned"
  wdResult,     \* what StartServerSide returned: "none", "nil", "timeout", "mismatch"
  wdListener,   \* the listener StartServerSide was given: "none", "init"
  elapsed,      \* time since the ticker was last reset
  tickPending,  \* the ticker has fired and the tick is not yet received
  sinceValid,   \* time since startTicker began or a valid heartbeat was handled
  hpc,          \* HandleConn per connection: "none", "reading", "got", "sending", "done", "panicked"
  hline,        \* the frame HandleConn has read
  badRecv,      \* a completed read has taken a heartbeat frame with another ID off a watchdog connection
  hsLog,        \* frames written and read on the handshake connection, in order
  epc,          \* enclave client: where StartHandshake / FinishHandshakeAndWait stands
  econn,        \* BridgeHandshake.conn (0: nil)
  egpc,         \* the goroutine FinishHandshakeAndWait has left behind: "none", "writing" (the write of
                \* WriteWithContext is still to come), "reading" (waits for the final ACK), "done"
  eready,       \* BridgeHandshake.ready is closed
  eerr,         \* BridgeHandshake.err: "nil", "read", "missingAck"
  ewait,        \* what WaitForBridgeSetup returned: "none", "nil", "err"
  ewd,          \* the enclave's current heartbeat connection (0: none)
  ectx,         \* the enclave's context is cancelled
  ewdRet,       \* what StartClientSide has returned to FinishHandshakeAndWait: "none" while its startTicker runs
  skind,        \* the tunnel whose HandleConn is followed: "none", "server", "client"
  spc,          \* where that HandleConn stands
  speer,        \* the far end of each of its two connections: "none", "open", "closed"
  sclose,       \* Close calls HandleConn has made on each connection
  sdata,        \* the far end has written bytes that have not been read yet
  scopy,        \* the two copy goroutines: "none", "running", "done"
  sctx,         \* the tunnel's parent context is cancelled
  sdeadline,    \* the requestTimeout of a client-tunnel connection has expired
  rkind,        \* the tunnel whose traffic is followed: "none", "server", "client"
  rwaits,       \* the peer that dialed the client tunnel waits for ACK before it writes (dialVsock)
  rpc,          \* where the HandleConn that relays stands
  rapc,         \* where the peer that dialed the client tunnel stands
  rvsock,       \* that peer's end of the VSOCK connection: "none", "open", "closed"
  rconnB,       \* HandleConn's dial has succeeded
  rin,          \* bytes a far end has written and HandleConn has not read yet
  rout,         \* bytes HandleConn has written to a far end that the far end has not read yet
  rgot,         \* payload bytes the application at a far end has received
  rwrote,       \* payload bytes a far end has written so far
  racks,        \* Write(ACK) calls HandleConn has made
  rlog,         \* every byte HandleConn has written to the accepted connection, in order
  ioCall,       \* the context-aware call that is followed: "none", "read", "write"
  ioWire,       \* bytes the peer has written that the call's reader has not read
  ioPeer,       \* the far end of the call's connection: "open", "closed"
  ioCtx,        \* the call's context is cancelled
  ioGo,         \* the call's goroutine: "none", "io", "check", "close", "done"
  ioUnder,      \* what the underlying ReadBytes or Write returned (<<>>: not yet)
  ioChan,       \* what the goroutine has sent and the caller has not received
  ioClosed,     \* the goroutine has closed its channels
  ioRet,        \* what the call returned (<<>>: not yet)
  hbRole,       \* the side of the watchdog that is followed: "none", "server", "client"
  hbCtx,        \* the watchdog's context is cancelled
  hbStart,      \* StartServerSide or StartClientSide: "none", "running", "returned"
  hbLoop,       \* the goroutine that accepts or dials: "none", "accept", "dial", "handle"
  hbN,          \* watchdog connections accepted or dialed so far
  hbSock,       \* this side's end of each connection: "none", "open", "closed"
  hbFar,        \* the far end of each connection: "none", "open", "closed"
  hbHandler,    \* HandleConn of each connection: "none", "running", "returned"
  hbWriters,    \* Heartbeat goroutines alive on each connection
  hbReaders,    \* reader goroutines of ReadBytesWithContext alive on each connection
  hbRead        \* what the reader goroutine of each connection has left on its channels: "none", "err" (the read error, sent), "closed" (closed with nothing sent)

netVars == <<listener, backlog, nconn, owner, est, bst, e2b, b2e>>
bridgeVars == <<bpc, hsConn, settings, bridgeErr, bridgeListener, acceptErrs, ackSent>>
groupVars == <<tunnel, groupErr, tunnelErrs, proxyClosed>>
wdVars == <<wdState, wdResult, wdListener, elapsed, tickPending, sinceValid, hpc, hline, badRecv>>
enclaveVars == <<epc, econn, egpc, eready, eerr, ewait, ewd, ectx, ewdRet>>
spliceVars == <<skind, spc, speer, sclose, sdata, scopy, sctx, sdeadline>>
coreVars == <<env, settingsIn, sentOther, cleanCancel, hsFault, budget, ctxDone, netVars, bridgeVars, groupVars, wdVars, enclaveVars, hsLog>>
relayVars == <<rkind, rwaits, rpc, rapc, rvsock, rconnB, rin, rout, rgot, rwrote, racks, rlog>>
ioVars == <<ioCall, ioWire, ioPeer, ioCtx, ioGo, ioUnder, ioChan, ioClosed, ioRet>>
hbVars == <<hbRole, hbCtx, hbStart, hbLoop, hbN, hbSock, hbFar, hbHandler, hbWriters, hbReaders, hbRead>>
vars == <<coreVars, spliceVars, relayVars, ioVars, hbVars>>

\* the two connections of a splice: A is the accepted one, B the dialed one
Ends == { "A", "B" }

\* no tunnel connection is being followed
SpliceIdle ==
  /\ skind = "none"
  /\ spc = "none"
  /\ speer = [ x \in Ends |-> "none" ]
  /\ sclose = [ x \in Ends |-> 0 ]
  /\ sdata = [ x \in Ends |-> FALSE ]
  /\ scopy = [ x \in Ends |-> "none" ]
  /\ sctx = FALSE
  /\ sdeadline = FALSE

\* no tunnel traffic is being followed
RelayIdle ==
  /\ rkind = "none"
  /\ rwaits = TRUE
  /\ rpc = "none"
  /\ rapc = "none"
  /\ rvsock = "none"
  /\ rconnB = FALSE
  /\ rin = [ x \in Ends |-> <<>> ]
  /\ rout = [ x \in Ends |-> <<>> ]
  /\ rgot = [ x \in Ends |-> <<>> ]
  /\ rwrote = [ x \in Ends |-> 0 ]
  /\ racks = 0
  /\ rlog = <<>>

\* the connections a watchdog can have in the model
HbConns == 1 .. MaxHbConns

\* no watchdog connection is being followed
HbIdle ==
  /\ hbRole = "none"
  /\ hbCtx = FALSE
  /\ hbStart = "none"
  /\ hbLoop = "none"
  /\ hbN = 0
  /\ hbSock = [ c \in HbConns |-> "none" ]
  /\ hbFar = [ c \in HbConns |-> "none" ]
  /\ hbHandler = [ c \in HbConns |-> "none" ]
  /\ hbWriters = [ c \in HbConns |-> 0 ]
  /\ hbReaders = [ c \in HbConns |-> 0 ]
  /\ hbRead = [ c \in HbConns |-> "none" ]

\* no context-aware call is being followed
IoIdle ==
  /\ ioCall = "none"
  /\ ioWire = <<>>
  /\ ioPeer = "open"
  /\ ioCtx = FALSE
  /\ ioGo = "none"
  /\ ioUnder = <<>>
  /\ ioChan = <<>>
  /\ ioClosed = FALSE
  /\ ioRet = <<>>

\* InitPort and the enclave-side settings: every ID, interval, tunnel count and
\* log level is taken, among them the settings of examples/simple-enclave/main.go
\* 81-105 (one server and one client tunnel, log level "debug", the watchdog of
\* NewStandardSettings) with an ID that holds the delimiter byte or none.  The
\* enclave client marshals the struct, which has no error key; a peer that is
\* not the client may send the key
InitInputs ==
  /\ env \in { "coop", "hostile", "rogue" }
  /\ settingsIn \in SettingsJSON
  /\ env # "hostile" => settingsIn.error = 0
  /\ sentOther = FALSE
  /\ cleanCancel = FALSE
  /\ hsFault = FALSE
  /\ budget = MaxStrayFrames

Init ==
  /\ InitInputs
  /\ ctxDone = FALSE
  /\ listener = "none"
  /\ backlog = <<>>
  /\ nconn = 0
  /\ owner = [ c \in ConnIds |-> "none" ]
  /\ est = [ c \in ConnIds |-> "none" ]
  /\ bst = [ c \in ConnIds |-> "none" ]
  /\ e2b = [ c \in ConnIds |-> <<>> ]
  /\ b2e = [ c \in ConnIds |-> <<>> ]
  /\ bpc = "listen"
  /\ hsConn = 0
  /\ settings = ZeroSettings
  /\ bridgeErr = "none"
  /\ bridgeListener = "nil"
  /\ acceptErrs = 0
  /\ tunnel = [ t \in Tunnels |-> "none" ]
  /\ groupErr = "none"
  /\ tunnelErrs = [ t \in Tunnels |-> 0 ]
  /\ proxyClosed = [ t \in Tunnels |-> FALSE ]
  /\ ackSent = FALSE
  /\ wdState = "none"
  /\ wdResult = "none"
  /\ wdListener = "none"
  /\ elapsed = 0
  /\ tickPending = FALSE
  /\ sinceValid = 0
  /\ hpc = [ c \in ConnIds |-> "none" ]
  /\ hline = [ c \in ConnIds |-> <<>> ]
  /\ badRecv = FALSE
  /\ hsLog = <<>>
  /\ epc = IF env = "hostile" THEN "off" ELSE "dial"
  /\ econn = 0
  /\ egpc = "none"
  /\ eready = FALSE
  /\ eerr = "nil"
  /\ ewait = "none"
  /\ ewd = 0
  /\ ectx = FALSE
  /\ ewdRet = "none"
  /\ SpliceIdle
  /\ RelayIdle
  /\ IoIdle
  /\ HbIdle

\* the bridge process is alive (no goroutine has panicked)
Alive == bpc # "panicked"

\* closing the init listener resets the connections still queued on it
CloseListenerBst(alsoClose) ==
  [ c \in ConnIds |-> IF c \in alsoClose \/ bst[c] = "queued" THEN "closed" ELSE bst[c] ]

PeerOpen(c) == est[c] = "open"

\* what has gone wrong so far outside the two programs' control flow: a
\* cancelled context (the bridge's, the enclave application's), a Listen or an
\* Accept that returned an error, a read deadline that passed before the
\* frame arrived, the application's Close of the handshake.  One behaviour
\* has at most MaxFaults of them
Faults ==
  (IF ctxDone THEN 1 ELSE 0) + (IF ectx THEN 1 ELSE 0) + (IF hsFault THEN 1 ELSE 0)
    + (IF bridgeErr = "listen" THEN 1 ELSE 0) + acceptErrs
    + Cardinality({ t \in Tunnels : tunnel[t] = "failed" })
    + Cardinality({ p \in Tunnels \X (1 .. MaxAcceptErrs) : p[2] <= tunnelErrs[p[1]] })

\* -------------------------------------------------- signal: root cancellation
Cancel ==
  /\ ~ctxDone
  /\ Faults < MaxFaults
  /\ bpc \notin { "listen", "failed", "runErr", "done", "panicked" }
  /\ ctxDone' = TRUE
  /\ cleanCancel' = /\ wdState \in { "spawned", "running" }
                    /\ ~tickPending
                    /\ \A c \in ConnIds : hpc[c] \in { "none", "reading", "done" }
  /\ UNCHANGED <<hbVars, ioVars, relayVars, spliceVars, env, settingsIn, sentOther, hsFault, budget, netVars, bridgeVars, groupVars, wdVars, enclaveVars, hsLog>>

\* ------------------------------------------------------------ CreateBridge
\* bridge.go 42-50: bind the init-port listener
CreateBridge_Listen ==
  /\ bpc = "listen"
  /\ env # "rogue"
  /\ \/ /\ listener' = "open"
        /\ bpc' = "accept"
        /\ UNCHANGED bridgeErr
     \/ /\ env = "hostile"
        /\ listener' = "none"
        /\ bpc' = "failed"
        /\ bridgeErr' = "listen"
  /\ UNCHANGED <<hbVars, ioVars, relayVars, spliceVars, env, settingsIn, sentOther, cleanCancel, hsFault, budget, ctxDone, backlog, nconn, owner, est, bst, e2b, b2e,
                 hsConn, settings, bridgeListener, acceptErrs, ackSent,
                 groupVars, wdVars, enclaveVars, hsLog>>

\* bridge.go 55-59: Accept returns a connection
CreateBridge_Accept ==
  /\ bpc = "accept"
  /\ listener = "open"
  /\ backlog # <<>>
  /\ hsConn' = Head(backlog)
  /\ backlog' = Tail(backlog)
  /\ bst' = [ bst EXCEPT ![Head(backlog)] = "open" ]
  /\ bpc' = "readAck"
  /\ UNCHANGED <<hbVars, ioVars, relayVars, spliceVars, env, settingsIn, sentOther, cleanCancel, hsFault, budget, ctxDone, listener, nconn, owner, est, e2b, b2e,
                 settings, bridgeErr, bridgeListener, acceptErrs, ackSent,
                 groupVars, wdVars, enclaveVars, hsLog>>

\* bridge.go 56-67: Accept returns an error; fatal only when the context is cancelled
CreateBridge_AcceptError ==
  /\ bpc = "accept"
  /\ env = "hostile"
  /\ IF ctxDone
       THEN /\ listener' = "closed"
            /\ bst' = CloseListenerBst({})
            /\ backlog' = <<>>
            /\ bpc' = "failed"
            /\ bridgeErr' = "ctx"
            /\ UNCHANGED acceptErrs
       ELSE /\ acceptErrs < MaxAcceptErrs
            /\ Faults < MaxFaults
            /\ acceptErrs' = acceptErrs + 1
            /\ UNCHANGED <<listener, bst, backlog, bpc, bridgeErr>>
  /\ UNCHANGED <<hbVars, ioVars, relayVars, spliceVars, env, settingsIn, sentOther, cleanCancel, hsFault, budget, ctxDone, nconn, owner, est, e2b, b2e,
                 hsConn, settings, bridgeListener, ackSent,
                 groupVars, wdVars, enclaveVars, hsLog>>

\* a failure path that drops the connection and goes back to Accept
FailCreate_KeepsListening(err) ==
  /\ listener' = listener
  /\ bst' = [ bst EXCEPT ![hsConn] = "closed" ]
  /\ backlog' = backlog
  /\ bpc' = "accept"
  /\ bridgeErr' = err

\* a failure path without listener.Close()
FailCreate_LeaksListener(err) ==
  /\ listener' = listener
  /\ bst' = [ bst EXCEPT ![hsConn] = "closed" ]
  /\ backlog' = backlog
  /\ bpc' = "failed"
  /\ bridgeErr' = err

\* bridge.go 74-76, 79-81, 87-89: every failure path of CreateBridge after Accept
FailCreate(err) ==
  /\ listener' = "closed"
  /\ bst' = CloseListenerBst({ hsConn })
  /\ backlog' = <<>>
  /\ bpc' = "failed"
  /\ bridgeErr' = err

\* bridge.go 73-83: what CreateBridge does with the result of the first read
ReadAckResult(r) ==
  /\ e2b' = [ e2b EXCEPT ![hsConn] = SubSeq(@, r.k + 1, Len(@)) ]
  /\ IF r.kind \in { "err", "ctx" }
       THEN /\ FailCreate("readAck")
            /\ UNCHANGED hsLog
       ELSE IF r.line = ACK
              THEN /\ bpc' = "writeEnv"
                   /\ hsLog' = Append(hsLog, <<"B", "r", "ACK", hsConn>>)
                   /\ UNCHANGED <<listener, bst, backlog, bridgeErr>>
              ELSE /\ FailCreate("notAck")
                   /\ hsLog' = IF r.kind = "data"
                                 THEN Append(hsLog, <<"B", "r", "OTHER", hsConn>>) ELSE hsLog

\* bridge.go 69-83: read the first frame under the 10 s read deadline
CreateBridge_ReadAck ==
  /\ bpc = "readAck"
  /\ \E r \in ReadResults(e2b[hsConn], ~PeerOpen(hsConn), ctxDone) : ReadAckResult(r)
  /\ UNCHANGED <<hbVars, ioVars, relayVars, spliceVars, env, settingsIn, sentOther, cleanCancel, hsFault, budget, ctxDone, nconn, owner, est, b2e,
                 hsConn, settings, bridgeListener, acceptErrs, ackSent,
                 groupVars, wdVars, enclaveVars>>

\* bridge.go 110-117, 136, 85-92: what completeHandshake does with the result of the read of step 3
ReadSettingsResult(r) ==
  /\ e2b' = [ e2b EXCEPT ![hsConn] = SubSeq(@, r.k + 1, Len(@)) ]
  /\ IF r.kind \in { "err", "ctx" }
       THEN /\ FailCreate("readConfig")
            /\ UNCHANGED <<settings, bridgeListener, hsLog>>
       ELSE IF ParsesAsSettings(r.line)
              THEN /\ settings' = Unmarshal(r.line[1])
                   /\ bridgeListener' = "init"
                   /\ bpc' = "created"
                   /\ hsLog' = Append(hsLog, <<"B", "r", "SET", hsConn>>)
                   /\ UNCHANGED <<listener, bst, backlog, bridgeErr>>
              ELSE /\ FailCreate("unmarshal")
                   /\ UNCHANGED <<settings, bridgeListener, hsLog>>

\* bridge.go 70-73, 107-110: the 10 s deadline of the read context passes while
\* the parent context is live.  The read then ends as a read under a done
\* context does: with the context's error, with the frame that arrived in
\* time, or with (nil, nil) from the closed channels, which the caller takes
\* for a frame that is not an ACK, or for a configuration that does not parse
ReadTimeout ==
  /\ ~ctxDone
  /\ Faults < MaxFaults
  /\ \/ /\ bpc = "readAck"
        /\ \E r \in ReadResults(e2b[hsConn], ~PeerOpen(hsConn), TRUE) : ReadAckResult(r)
        /\ UNCHANGED <<settings, bridgeListener>>
     \/ /\ bpc = "readSettings"
        /\ \E r \in ReadResults(e2b[hsConn], ~PeerOpen(hsConn), TRUE) : ReadSettingsResult(r)
  /\ hsFault' = (hsFault \/ bpc' = "failed")
  /\ UNCHANGED <<hbVars, ioVars, relayVars, spliceVars, env, settingsIn, sentOther, cleanCancel, budget, ctxDone, nconn, owner, est, b2e,
                 hsConn, acceptErrs, ackSent,
                 groupVars, wdVars, enclaveVars>>

\* the environment written right after Accept, the read of the enclave's ACK skipped
completeHandshake_WriteEnv_BeforeAck ==
  /\ bpc \in { "readAck", "writeEnv" }
  /\ \E w \in WriteResults(PeerOpen(hsConn), ctxDone) :
       /\ b2e' = [ b2e EXCEPT ![hsConn] =
                     IF w.wrote THEN @ \o Tagged(<<EnvDoc, LF>>, NoTag) ELSE @ ]
       /\ hsLog' = IF w.wrote THEN Append(hsLog, <<"B", "w", "ENV", hsConn>>) ELSE hsLog
       /\ IF w.res = "ok"
            THEN /\ bpc' = "readSettings"
                 /\ UNCHANGED <<listener, bst, backlog, bridgeErr>>
            ELSE FailCreate("writeEnv")
  /\ UNCHANGED <<hbVars, ioVars, relayVars, spliceVars, env, settingsIn, sentOther, cleanCancel, hsFault, budget, ctxDone, nconn, owner, est, e2b,
                 hsConn, settings, bridgeListener, acceptErrs, ackSent,
                 groupVars, wdVars, enclaveVars>>

\* bridge.go 96-104: serialize the environment and write step 2.
\* SerializeEnvironment("") (config.go 56-90) compiles no pattern and marshals a
\* map[string]string, so the error return of lines 98-100 has no input
completeHandshake_WriteEnv ==
  /\ bpc = "writeEnv"
  /\ \E w \in WriteResults(PeerOpen(hsConn), ctxDone) :
       /\ b2e' = [ b2e EXCEPT ![hsConn] =
                     IF w.wrote THEN @ \o Tagged(<<EnvDoc, LF>>, NoTag) ELSE @ ]
       /\ hsLog' = IF w.wrote THEN Append(hsLog, <<"B", "w", "ENV", hsConn>>) ELSE hsLog
       /\ IF w.res = "ok"
            THEN /\ bpc' = "readSettings"
                 /\ UNCHANGED <<listener, bst, backlog, bridgeErr>>
            ELSE FailCreate("writeEnv")
  /\ UNCHANGED <<hbVars, ioVars, relayVars, spliceVars, env, settingsIn, sentOther, cleanCancel, hsFault, budget, ctxDone, nconn, owner, est, e2b,
                 hsConn, settings, bridgeListener, acceptErrs, ackSent,
                 groupVars, wdVars, enclaveVars>>

\* bridge.go 106-117, 136, 85-92: read step 3, parse it, build the Bridge
completeHandshake_ReadSettings ==
  /\ bpc = "readSettings"
  /\ \E r \in ReadResults(e2b[hsConn], ~PeerOpen(hsConn), ctxDone) : ReadSettingsResult(r)
  /\ UNCHANGED <<hbVars, ioVars, relayVars, spliceVars, env, settingsIn, sentOther, cleanCancel, hsFault, budget, ctxDone, nconn, owner, est, b2e,
                 hsConn, acceptErrs, ackSent,
                 groupVars, wdVars, enclaveVars>>


\* -------------------------------------------------------------- Bridge.Run
GroupDone == ctxDone \/ groupErr # "none"

\* errgroup: the first non-nil error is kept and cancels the group context
GroupFail(err) == IF groupErr = "none" THEN err ELSE groupErr

\* bridge.go 153, 161: the tunnels the settings configure
Configured(s) ==
  { t \in Tunnels : \/ t[1] = "server" /\ t[2] <= s.servers
                    \/ t[1] = "client" /\ t[2] <= s.clients }

\* Run with the loop over settings.Clients left out
Run_Setup_SkipsClients ==
  /\ bpc = "created"
  /\ IF settings.level # 0
       THEN /\ bpc' = "runErr"
            /\ bridgeErr' = "level"
            /\ UNCHANGED tunnel
       ELSE /\ bpc' = "newWatchdog"
            /\ tunnel' = [ t \in Tunnels |->
                 IF t \in Configured(settings) /\ t[1] = "server" THEN "spawned" ELSE tunnel[t] ]
            /\ UNCHANGED bridgeErr
  /\ UNCHANGED <<hbVars, ioVars, relayVars, spliceVars, env, settingsIn, sentOther, cleanCancel, hsFault, budget, ctxDone, netVars, hsConn, settings, bridgeListener,
                 acceptErrs, ackSent, groupErr, tunnelErrs, proxyClosed, wdVars, enclaveVars, hsLog>>

\* bridge.go 141-166: set the log level, then spawn every server and client tunnel
Run_Setup ==
  /\ bpc = "created"
  /\ IF settings.level # 0
       THEN /\ bpc' = "runErr"
            /\ bridgeErr' = "level"
            /\ UNCHANGED tunnel
       ELSE /\ bpc' = "newWatchdog"
            /\ tunnel' = [ t \in Tunnels |->
                 IF t \in Configured(settings) THEN "spawned" ELSE tunnel[t] ]
            /\ UNCHANGED bridgeErr
  /\ UNCHANGED <<hbVars, ioVars, relayVars, spliceVars, env, settingsIn, sentOther, cleanCancel, hsFault, budget, ctxDone, netVars, hsConn, settings, bridgeListener,
                 acceptErrs, ackSent, groupErr, tunnelErrs, proxyClosed, wdVars, enclaveVars, hsLog>>

\* watchdog.New: ErrEnclaveIDRequired for uuid.Nil; time.NewTicker panics unless the interval is positive
NewWatchdog(s) ==
  IF IdOf(s.id) = NilID THEN "idRequired"
  ELSE IF s.interval <= 0 THEN "panic"
  ELSE "ok"

\* bridge.go 168-174: build the watchdog and spawn StartServerSide on Bridge.listener
Run_Watchdog ==
  /\ bpc = "newWatchdog"
  /\ LET r == NewWatchdog(settings) IN
       /\ bpc' = IF r = "ok" THEN "ready" ELSE IF r = "panic" THEN "panicked" ELSE "runErr"
       /\ bridgeErr' = IF r = "idRequired" THEN "idRequired" ELSE bridgeErr
       /\ wdState' = IF r = "ok" THEN "spawned" ELSE wdState
       /\ wdListener' = IF r = "ok" THEN bridgeListener ELSE wdListener
  /\ UNCHANGED <<hbVars, ioVars, relayVars, spliceVars, env, settingsIn, sentOther, cleanCancel, hsFault, budget, ctxDone, netVars, hsConn, settings, bridgeListener,
                 acceptErrs, ackSent, groupVars, wdResult, elapsed, tickPending, sinceValid,
                 hpc, hline, badRecv, enclaveVars, hsLog>>

\* bridge.go 131 with WriteWithContext 38-47: the goroutine of the final write
\* calls conn.Write; bpc keeps whether Write returned an error
readyFunc_Write ==
  /\ bpc = "ready"
  /\ \E w \in WriteResults(PeerOpen(hsConn), FALSE) :
       /\ b2e' = [ b2e EXCEPT ![hsConn] = IF w.wrote THEN @ \o Tagged(ACK, NoTag) ELSE @ ]
       /\ ackSent' = w.wrote
       /\ hsLog' = IF w.wrote THEN Append(hsLog, <<"B", "w", "ACK", hsConn>>) ELSE hsLog
       /\ bpc' = IF w.res = "ok" THEN "ackOk" ELSE "ackErr"
  /\ UNCHANGED <<hbVars, ioVars, relayVars, spliceVars, env, settingsIn, sentOther, cleanCancel, hsFault, budget, ctxDone, listener, backlog, nconn, owner, est, bst, e2b,
                 hsConn, settings, bridgeListener, bridgeErr, acceptErrs, groupVars, wdVars, enclaveVars>>

\* WriteWithContext 48-62 as readyFunc sees it: the select returns the
\* context's error when the context is done, the goroutine's result when it
\* was sent, and nil from the closed channels when the goroutine found the
\* context done and sent nothing
ReadyResults ==
  (IF ctxDone THEN { "ctx" } ELSE {})
    \cup (IF bpc = "ackOk" \/ (bpc = "ackErr" /\ ctxDone) THEN { "ok" } ELSE {})
    \cup (IF bpc = "ackErr" THEN { "err" } ELSE {})

\* a ready function that closes the init listener together with the connection
readyFunc_ClosesListener ==
  /\ bpc \in { "ready", "ackOk", "ackErr" }
  /\ \E res \in ReadyResults :
       /\ bpc' = IF res = "ok" THEN "wait" ELSE "runErr"
       /\ bridgeErr' = IF res = "ok" THEN bridgeErr ELSE "ack"
  /\ listener' = "closed"
  /\ backlog' = <<>>
  /\ bst' = CloseListenerBst({ hsConn })
  /\ UNCHANGED <<hbVars, ioVars, relayVars, spliceVars, env, settingsIn, sentOther, cleanCancel, hsFault, budget, ctxDone, nconn, owner, est, e2b, b2e,
                 hsConn, settings, bridgeListener, acceptErrs, ackSent, groupVars, wdVars, enclaveVars, hsLog>>

\* bridge.go 120-135, 176-179: readyFunc returns what the select of
\* WriteWithContext gives, and its deferred conn.Close closes the handshake
\* connection; a write the goroutine has not made by then fails on the closed
\* connection
readyFunc ==
  /\ bpc \in { "ready", "ackOk", "ackErr" }
  /\ \E res \in ReadyResults :
       /\ bpc' = IF res = "ok" THEN "wait" ELSE "runErr"
       /\ bridgeErr' = IF res = "ok" THEN bridgeErr ELSE "ack"
  /\ bst' = [ bst EXCEPT ![hsConn] = "closed" ]
  /\ UNCHANGED <<hbVars, ioVars, relayVars, spliceVars, env, settingsIn, sentOther, cleanCancel, hsFault, budget, ctxDone, listener, backlog, nconn, owner, est, e2b, b2e,
                 hsConn, settings, bridgeListener, acceptErrs, ackSent, groupVars, wdVars, enclaveVars, hsLog>>

\* bridge.go 181-185: group.Wait returns once every goroutine of the group has returned
Run_Wait ==
  /\ bpc = "wait"
  /\ \A t \in Tunnels : tunnel[t] \in { "none", "failed", "stopped" }
  /\ wdState = "returned"
  /\ bpc' = "done"
  /\ bridgeErr' = groupErr
  /\ UNCHANGED <<hbVars, ioVars, relayVars, spliceVars, env, settingsIn, sentOther, cleanCancel, hsFault, budget, ctxDone, netVars, hsConn, settings, bridgeListener,
                 acceptErrs, ackSent, groupVars, wdVars, enclaveVars, hsLog>>

\* ---------------------------------------------------------------- tunnels
\* bridge.go 221-227 (proxy.Run) and ClientTunnel.ListenForTargetRequests 115-120:
\* the listener is bound inside the goroutine
Tunnel_Bind(t) ==
  /\ Alive
  /\ tunnel[t] = "spawned"
  /\ \/ /\ tunnel' = [ tunnel EXCEPT ![t] = "listening" ]
        /\ UNCHANGED groupErr
     \/ /\ env = "hostile"
        /\ Faults < MaxFaults
        /\ tunnel' = [ tunnel EXCEPT ![t] = "failed" ]
        /\ groupErr' = GroupFail("listen")
  /\ UNCHANGED <<hbVars, ioVars, relayVars, spliceVars, env, settingsIn, sentOther, cleanCancel, hsFault, budget, ctxDone, netVars, bridgeVars,
                 tunnelErrs, proxyClosed, wdVars, enclaveVars, hsLog>>

\* ListenForTargetRequests 126-140, proxy.Run: the listener accepts a connection
Tunnel_Accept(t) ==
  /\ Alive
  /\ tunnel[t] = "listening"
  /\ tunnel' = [ tunnel EXCEPT ![t] = "serving" ]
  /\ UNCHANGED <<hbVars, ioVars, relayVars, spliceVars, env, settingsIn, sentOther, cleanCancel, hsFault, budget, ctxDone, netVars, bridgeVars, groupErr, tunnelErrs,
                 proxyClosed, wdVars, enclaveVars, hsLog>>

\* bridge.go 230-237: the shutdown goroutine of a server tunnel wakes on the
\* done group context and calls proxy.Close before the goroutine of proxy.Run
\* has bound the listener.  Close closes the listeners the proxy holds at that
\* moment, so this call closes nothing, and the goroutine returns
Tunnel_CloseBeforeBind(t) ==
  /\ Alive
  /\ t \in Servers
  /\ tunnel[t] = "spawned"
  /\ GroupDone
  /\ ~proxyClosed[t]
  /\ proxyClosed' = [ proxyClosed EXCEPT ![t] = TRUE ]
  /\ UNCHANGED <<hbVars, ioVars, relayVars, spliceVars, env, settingsIn, sentOther, cleanCancel, hsFault, budget, ctxDone, netVars, bridgeVars,
                 tunnel, groupErr, tunnelErrs, wdVars, enclaveVars, hsLog>>

\* the group context is done and the listener is closed.  Client tunnel
\* (ListenForTargetRequests 121-135): Accept fails with net.ErrClosed and the
\* loop returns nil.  Server tunnel (bridge.go 221-237): the one call of
\* proxy.Close closes the listeners, the Accept of tcpproxy fails, proxy.Run
\* returns that error (its return value is never nil) and the goroutine
\* returns "proxy run failed"
Tunnel_Stop(t) ==
  /\ Alive
  /\ tunnel[t] \in { "listening", "serving" }
  /\ GroupDone
  /\ t \in Servers => ~proxyClosed[t]
  /\ tunnel' = [ tunnel EXCEPT ![t] = "stopped" ]
  /\ groupErr' = IF t[1] = "server" THEN GroupFail("proxyRun") ELSE groupErr
  /\ proxyClosed' = IF t \in Servers THEN [ proxyClosed EXCEPT ![t] = TRUE ] ELSE proxyClosed
  /\ UNCHANGED <<hbVars, ioVars, relayVars, spliceVars, env, settingsIn, sentOther, cleanCancel, hsFault, budget, ctxDone, netVars, bridgeVars,
                 tunnelErrs, wdVars, enclaveVars, hsLog>>

\* ListenForTargetRequests 130-138: Accept of a client tunnel fails with an error
\* that is not net.ErrClosed; the error is logged and the loop goes on
Tunnel_AcceptError(t) ==
  /\ Alive
  /\ env = "hostile"
  /\ t \in Clients
  /\ tunnel[t] \in { "listening", "serving" }
  /\ tunnelErrs[t] < MaxAcceptErrs
  /\ Faults < MaxFaults
  /\ tunnelErrs' = [ tunnelErrs EXCEPT ![t] = @ + 1 ]
  /\ UNCHANGED <<hbVars, ioVars, relayVars, spliceVars, env, settingsIn, sentOther, cleanCancel, hsFault, budget, ctxDone, netVars, bridgeVars,
                 tunnel, groupErr, proxyClosed, wdVars, enclaveVars, hsLog>>


\* --------------------------------------------------------- watchdog server
Expected == IdOf(settings.id)

\* a heartbeat frame carrying another ID ends inside the first k bytes of the wire
BadFrameIn(w, k) ==
  \E i \in 1 .. k : w[i][2] >= 0 /\ IdOf(w[i][2]) # Expected

\* watchdog.go StartServerSide 164-178, startTicker 215: spawn the accept loop, reset the ticker
StartServerSide ==
  /\ Alive
  /\ wdState = "spawned"
  /\ wdState' = "running"
  /\ elapsed' = 0
  /\ tickPending' = FALSE
  /\ sinceValid' = 0
  /\ UNCHANGED <<hbVars, ioVars, relayVars, spliceVars, env, settingsIn, sentOther, cleanCancel, hsFault, budget, ctxDone, netVars, bridgeVars, groupVars,
                 wdResult, wdListener, hpc, hline, badRecv, enclaveVars, hsLog>>

\* an accept loop that counts a new connection as a heartbeat and resets the ticker
Watchdog_Accept_ResetsTicker ==
  /\ Alive
  /\ wdState \in { "running", "returned" }
  /\ wdListener = "init"
  /\ listener = "open"
  /\ backlog # <<>>
  /\ backlog' = Tail(backlog)
  /\ bst' = [ bst EXCEPT ![Head(backlog)] = "open" ]
  /\ hpc' = [ hpc EXCEPT ![Head(backlog)] = "reading" ]
  /\ elapsed' = 0
  /\ tickPending' = FALSE
  /\ UNCHANGED <<hbVars, ioVars, relayVars, spliceVars, env, settingsIn, sentOther, cleanCancel, hsFault, budget, ctxDone, listener, nconn, owner, est, e2b, b2e,
                 bridgeVars, groupVars, wdState, wdResult, wdListener,
                 sinceValid, hline, badRecv, enclaveVars, hsLog>>

\* StartServerSide 167-176: the accept loop hands a connection to HandleConn
Watchdog_Accept ==
  /\ Alive
  /\ wdState \in { "running", "returned" }
  /\ wdListener = "init"
  /\ listener = "open"
  /\ backlog # <<>>
  /\ backlog' = Tail(backlog)
  /\ bst' = [ bst EXCEPT ![Head(backlog)] = "open" ]
  /\ hpc' = [ hpc EXCEPT ![Head(backlog)] = "reading" ]
  /\ UNCHANGED <<hbVars, ioVars, relayVars, spliceVars, env, settingsIn, sentOther, cleanCancel, hsFault, budget, ctxDone, listener, nconn, owner, est, e2b, b2e,
                 bridgeVars, groupVars, wdState, wdResult, wdListener, elapsed, tickPending,
                 sinceValid, hline, badRecv, enclaveVars, hsLog>>

\* HandleConn 230-240: read one frame; a read error or a done context ends the
\* handler.  A read that returns neither bytes nor an error makes 240 slice an
\* empty frame; the deferred Close of 230 runs while the panic unwinds
HandleConn_Read(c) ==
  /\ Alive
  /\ hpc[c] = "reading"
  /\ \E r \in ReadResults(e2b[c], ~PeerOpen(c), GroupDone) :
       /\ e2b' = [ e2b EXCEPT ![c] = SubSeq(@, r.k + 1, Len(@)) ]
       /\ badRecv' = (badRecv \/ (r.kind = "data" /\ BadFrameIn(e2b[c], r.k)))
       /\ hline' = [ hline EXCEPT ![c] = r.line ]
       /\ hpc' = [ hpc EXCEPT ![c] =
            IF r.kind = "data" THEN "got" ELSE IF r.kind = "nilnil" THEN "panicked" ELSE "done" ]
       /\ bst' = [ bst EXCEPT ![c] = IF r.kind \in { "err", "ctx", "nilnil" } THEN "closed" ELSE @ ]
       /\ bpc' = IF r.kind = "nilnil" THEN "panicked" ELSE bpc
  /\ UNCHANGED <<hbVars, ioVars, relayVars, spliceVars, env, settingsIn, sentOther, cleanCancel, hsFault, budget, ctxDone, listener, backlog, nconn, owner, est, b2e,
                 hsConn, settings, bridgeErr, bridgeListener, acceptErrs, ackSent, groupVars,
                 wdState, wdResult, wdListener, elapsed, tickPending, sinceValid,
                 enclaveVars, hsLog>>

\* HandleConn 240-241: strip the delimiter and decode the ID
FrameMatches(line) == FromBytesOrNil(SubSeq(line, 1, Len(line) - 1)) = Expected

\* HandleConn 239-247: a matching frame resets the ticker, any other is sent to watchErrChan
HandleConn_Check(c) ==
  /\ Alive
  /\ hpc[c] = "got"
  /\ IF FrameMatches(hline[c])
       THEN /\ hpc' = [ hpc EXCEPT ![c] = "reading" ]
            /\ hline' = [ hline EXCEPT ![c] = <<>> ]
            /\ elapsed' = 0
            /\ tickPending' = FALSE
            /\ sinceValid' = 0
       ELSE /\ hpc' = [ hpc EXCEPT ![c] = "sending" ]
            /\ UNCHANGED <<hline, elapsed, tickPending, sinceValid>>
  /\ UNCHANGED <<hbVars, ioVars, relayVars, spliceVars, env, settingsIn, sentOther, cleanCancel, hsFault, budget, ctxDone, netVars, bridgeVars, groupVars,
                 wdState, wdResult, wdListener, badRecv, enclaveVars, hsLog>>

\* Heartbeat 260: the ticker of a heartbeat goroutine runs at half the interval,
\* an integer division of the duration
HeartbeatTicker(s) == s.interval \div 2

\* HandleConn 231 with Heartbeat 260: every HandleConn starts a heartbeat
\* goroutine, whose time.NewTicker panics when half the interval is not positive
Heartbeat_NewTicker ==
  /\ Alive
  /\ \E c \in ConnIds : hpc[c] # "none"
  /\ HeartbeatTicker(settings) <= 0
  /\ bpc' = "panicked"
  /\ UNCHANGED <<hbVars, ioVars, relayVars, spliceVars, env, settingsIn, sentOther, cleanCancel, hsFault, budget, ctxDone, netVars,
                 hsConn, settings, bridgeErr, bridgeListener, acceptErrs, ackSent, groupVars, wdVars, enclaveVars, hsLog>>

\* HandleConn 231 with Heartbeat 262-270 on the bridge: the goroutine writes the
\* watchdog's own ID and a newline to the connection at every tick, until the
\* group context is done or a write fails; the select takes a tick that is due
\* beside a done context as readily as the context
Heartbeat_Server(c) ==
  /\ Alive
  /\ hpc[c] \in { "reading", "got", "sending" }
  /\ HeartbeatTicker(settings) > 0
  /\ PeerOpen(c)
  /\ Len(b2e[c]) + IdLen + 1 <= MaxHbWire
  /\ b2e' = [ b2e EXCEPT ![c] = @ \o Tagged(HeartbeatFrame(settings.id), settings.id) ]
  /\ UNCHANGED <<hbVars, ioVars, relayVars, spliceVars, env, settingsIn, sentOther, cleanCancel, hsFault, budget, ctxDone, listener, backlog, nconn, owner, est, bst,
                 e2b, bridgeVars, groupVars, wdVars, enclaveVars, hsLog>>

\* the cases of startTicker's select that are ready
SelectReady ==
  (IF GroupDone THEN { <<"nil", 0>> } ELSE {})
    \cup (IF tickPending THEN { <<"timeout", 0>> } ELSE {})
    \cup { <<"mismatch", c>> : c \in { d \in ConnIds : hpc[d] = "sending" } }

\* startTicker 216-225 and the deferred listener.Close of StartServerSide 166
startTicker ==
  /\ Alive
  /\ wdState = "running"
  /\ \E choice \in SelectReady :
       /\ wdResult' = choice[1]
       /\ hpc' = [ c \in ConnIds |-> IF choice[1] = "mismatch" /\ c = choice[2] THEN "done" ELSE hpc[c] ]
       /\ groupErr' = IF choice[1] = "nil" THEN groupErr ELSE GroupFail(choice[1])
       /\ IF wdListener = "init"
            THEN /\ listener' = "closed"
                 /\ backlog' = <<>>
                 /\ bst' = CloseListenerBst(IF choice[1] = "mismatch" THEN { choice[2] } ELSE {})
            ELSE /\ bst' = [ c \in ConnIds |->
                       IF choice[1] = "mismatch" /\ c = choice[2] THEN "closed" ELSE bst[c] ]
                 /\ UNCHANGED <<listener, backlog>>
  /\ wdState' = "returned"
  /\ UNCHANGED <<hbVars, ioVars, relayVars, spliceVars, env, settingsIn, sentOther, cleanCancel, hsFault, budget, ctxDone, nconn, owner, est, e2b, b2e, bridgeVars,
                 tunnel, tunnelErrs, proxyClosed, wdListener, elapsed, tickPending, sinceValid, hline,
                 badRecv, enclaveVars, hsLog>>

\* one unit of time passes; the select of startTicker does not sleep on a ready case
Tick ==
  /\ Alive
  /\ wdState = "running"
  /\ SelectReady = {}
  /\ elapsed < settings.interval
  /\ elapsed' = elapsed + 1
  /\ tickPending' = (elapsed + 1 = settings.interval)
  /\ sinceValid' = IF sinceValid <= MaxInterval THEN sinceValid + 1 ELSE sinceValid
  /\ UNCHANGED <<hbVars, ioVars, relayVars, spliceVars, env, settingsIn, sentOther, cleanCancel, hsFault, budget, ctxDone, netVars, bridgeVars, groupVars,
                 wdState, wdResult, wdListener, hpc, hline, badRecv, enclaveVars, hsLog>>

\* ------------------------------------------------------------- stray peers
\* what a peer that is not this repository's client may write
\* to a bridge that is still in CreateBridge: handshake frames, a malformed
\* document, a heartbeat of some enclave; to a running bridge: heartbeats and ACK
StrayFrames ==
  IF bpc \in { "listen", "accept", "readAck", "writeEnv", "readSettings" }
    THEN { Tagged(ACK, AckTag),
           Tagged(<<JSONEncode(settingsIn), LF>>, NoTag),
           Tagged(<<BadDoc, LF>>, NoTag),
           Tagged(HeartbeatFrame(1), 1) }
    ELSE { Tagged(ACK, AckTag) } \cup { Tagged(HeartbeatFrame(i), i) : i \in IdIdx \ { 0 } }

NewConn(who) ==
  /\ nconn < MaxConns
  /\ listener = "open"
  /\ nconn' = nconn + 1
  /\ owner' = [ owner EXCEPT ![nconn + 1] = who ]
  /\ est' = [ est EXCEPT ![nconn + 1] = "open" ]
  /\ bst' = [ bst EXCEPT ![nconn + 1] = "queued" ]
  /\ backlog' = Append(backlog, nconn + 1)

Stray_Dial ==
  /\ env = "hostile"
  /\ NewConn("stray")
  /\ UNCHANGED <<hbVars, ioVars, relayVars, spliceVars, env, settingsIn, sentOther, cleanCancel, hsFault, budget, ctxDone, listener, e2b, b2e, bridgeVars, groupVars,
                 wdVars, enclaveVars, hsLog>>

\* a peer writes one frame; bytes written before the bridge accepts wait in the
\* socket buffer and are seen exactly as bytes written right after the accept
Stray_Write(c, f) ==
  /\ owner[c] = "stray"
  /\ est[c] = "open"
  /\ bst[c] = "open"
  /\ budget > 0
  /\ Len(e2b[c]) + Len(f) <= MaxWire
  /\ e2b' = [ e2b EXCEPT ![c] = @ \o f ]
  /\ budget' = budget - 1
  /\ sentOther' = (sentOther \/ f # Tagged(HeartbeatFrame(settings.id), settings.id))
  /\ UNCHANGED <<hbVars, ioVars, relayVars, spliceVars, env, settingsIn, cleanCancel, hsFault, ctxDone, listener, backlog, nconn, owner, est, bst,
                 b2e, bridgeVars, groupVars, wdVars, enclaveVars, hsLog>>

\* a peer closes its end; the bridge sees it at its next read or write
Stray_Close(c) ==
  /\ owner[c] = "stray"
  /\ est[c] = "open"
  /\ bst[c] = "open"
  /\ est' = [ est EXCEPT ![c] = "closed" ]
  /\ UNCHANGED <<hbVars, ioVars, relayVars, spliceVars, env, settingsIn, sentOther, cleanCancel, hsFault, budget, ctxDone, listener, backlog, nconn, owner, bst, e2b,
                 b2e, bridgeVars, groupVars, wdVars, enclaveVars, hsLog>>


\* ------------------------------------------------- a peer that is not the bridge
\* what the program behind vsock.Dial (setupConnection 81, runWatchdog 150) may
\* write to the enclave client when it is not this repository's bridge: an
\* environment, an ACK, a malformed document, a heartbeat of some enclave
RogueFrames ==
  { Tagged(<<EnvDoc, LF>>, NoTag),
    Tagged(ACK, NoTag),
    Tagged(<<BadDoc, LF>>, NoTag),
    Tagged(HeartbeatFrame(1), 1) }

\* the peer binds the init port
Rogue_Listen ==
  /\ env = "rogue"
  /\ listener = "none"
  /\ listener' = "open"
  /\ UNCHANGED <<hbVars, ioVars, relayVars, spliceVars, env, settingsIn, sentOther, cleanCancel, hsFault, budget, ctxDone, backlog, nconn, owner, est, bst, e2b, b2e,
                 bridgeVars, groupVars, wdVars, enclaveVars, hsLog>>

\* the peer accepts a connection of the enclave client
Rogue_Accept ==
  /\ env = "rogue"
  /\ backlog # <<>>
  /\ backlog' = Tail(backlog)
  /\ bst' = [ bst EXCEPT ![Head(backlog)] = "open" ]
  /\ UNCHANGED <<hbVars, ioVars, relayVars, spliceVars, env, settingsIn, sentOther, cleanCancel, hsFault, budget, ctxDone, listener, nconn, owner, est, e2b, b2e,
                 bridgeVars, groupVars, wdVars, enclaveVars, hsLog>>

\* the peer writes one frame to the enclave client
Rogue_Write(c, f) ==
  /\ env = "rogue"
  /\ bst[c] = "open"
  /\ budget > 0
  /\ Len(b2e[c]) + Len(f) <= MaxWire
  /\ b2e' = [ b2e EXCEPT ![c] = @ \o f ]
  /\ budget' = budget - 1
  /\ UNCHANGED <<hbVars, ioVars, relayVars, spliceVars, env, settingsIn, sentOther, cleanCancel, hsFault, ctxDone, listener, backlog, nconn, owner, est, bst,
                 e2b, bridgeVars, groupVars, wdVars, enclaveVars, hsLog>>

\* the peer closes its end; the enclave client sees it at its next read or write
Rogue_Close(c) ==
  /\ env = "rogue"
  /\ bst[c] = "open"
  /\ bst' = [ bst EXCEPT ![c] = "closed" ]
  /\ UNCHANGED <<hbVars, ioVars, relayVars, spliceVars, env, settingsIn, sentOther, cleanCancel, hsFault, budget, ctxDone, listener, backlog, nconn, owner, est, e2b,
                 b2e, bridgeVars, groupVars, wdVars, enclaveVars, hsLog>>


\* ---------------------------------------------- enclave client (handshake)
BridgeEndClosed(c) == bst[c] = "closed"

\* StartHandshakeWithPort 47-48: b.mutex is locked on entry and unlocked by a
\* deferred call, so the caller holds it from the first dial to the return
MutexHeld == epc \in { "dial", "writeAck", "readEnv" }

\* setupConnection 89: the read of step 2 is blocked, no complete line has
\* arrived and the connection is not closed
BlockedInRead ==
  /\ epc = "readEnv"
  /\ ~HasLF(b2e[econn])
  /\ ~BridgeEndClosed(econn)

\* handshake.go setupConnection 80-83: dial the init port (a failed dial is retried after a backoff)
setupConnection_Dial ==
  /\ epc = "dial"
  /\ NewConn("enclave")
  /\ econn' = nconn + 1
  /\ epc' = "writeAck"
  /\ UNCHANGED <<hbVars, ioVars, relayVars, spliceVars, env, settingsIn, sentOther, cleanCancel, hsFault, budget, ctxDone, listener, e2b, b2e, bridgeVars, groupVars,
                 wdVars, ectx, egpc, eready, eerr, ewait, ewdRet, ewd, hsLog>>

\* setupConnection 84-88: write step 1; on a write error close and retry
setupConnection_WriteAck ==
  /\ epc = "writeAck"
  /\ IF BridgeEndClosed(econn)
       THEN /\ est' = [ est EXCEPT ![econn] = "closed" ]
            /\ epc' = "dial"
            /\ UNCHANGED <<e2b, hsLog>>
       ELSE /\ e2b' = [ e2b EXCEPT ![econn] = @ \o Tagged(ACK, AckTag) ]
            /\ hsLog' = Append(hsLog, <<"E", "w", "ACK", econn>>)
            /\ epc' = "readEnv"
            /\ UNCHANGED est
  /\ UNCHANGED <<hbVars, ioVars, relayVars, spliceVars, env, settingsIn, sentOther, cleanCancel, hsFault, budget, ctxDone, listener, backlog, nconn, owner, bst, b2e,
                 bridgeVars, groupVars, wdVars, ectx, econn, egpc, eready, eerr, ewait, ewdRet, ewd>>

\* setupConnection 89-94 and StartHandshakeWithPort 59-74: read step 2 and parse
\* the environment; a read error, the context's error included, closes the
\* connection and the loop dials again without looking at the context
StartHandshakeWithPort ==
  /\ epc = "readEnv"
  /\ \E r \in ReadResults(b2e[econn], BridgeEndClosed(econn), ectx) :
       /\ b2e' = [ b2e EXCEPT ![econn] = SubSeq(@, r.k + 1, Len(@)) ]
       /\ IF r.kind \in { "err", "ctx" }
            THEN /\ est' = [ est EXCEPT ![econn] = "closed" ]
                 /\ epc' = "dial"
                 /\ UNCHANGED hsLog
            ELSE IF ParsesAsEnv(r.line)
                   THEN /\ epc' = "started"
                        /\ hsLog' = Append(hsLog, <<"E", "r", "ENV", econn>>)
                        /\ UNCHANGED est
                   ELSE /\ est' = [ est EXCEPT ![econn] = "closed" ]
                        /\ epc' = "failed"
                        /\ UNCHANGED hsLog
  /\ UNCHANGED <<hbVars, ioVars, relayVars, spliceVars, env, settingsIn, sentOther, cleanCancel, hsFault, budget, ctxDone, listener, backlog, nconn, owner, bst, e2b,
                 bridgeVars, groupVars, wdVars, ectx, econn, egpc, eready, eerr, ewait, ewdRet, ewd>>

\* the enclave's settings struct
EnclaveSettings ==
  [ id |-> settingsIn.id, interval |-> settingsIn.interval, servers |-> settingsIn.servers,
    clients |-> settingsIn.clients, level |-> settingsIn.level ]

\* FinishHandshakeAndWait 118: what WriteWithContext can return on the enclave's
\* handshake connection.  With the context done the select of 53-57 may return
\* ctx.Err() after the goroutine's Write or before it.  On a connection that
\* Close has closed the Write fails; the error is returned unless the goroutine
\* finds the context done
FinishWriteResults ==
  IF est[econn] = "closed"
    THEN { w \in WriteResults(FALSE, ectx) : ectx \/ w.res = "err" }
    ELSE WriteResults(~BridgeEndClosed(econn), ectx)

\* WriteWithContext 53-57 under FinishHandshakeAndWait 118-122: the call has
\* returned ctx.Err() and nothing is written yet; the enclave does not close
\* the connection, so the goroutine of 36-49 still has its Write to make
WritePending(w) ==
  w.res = "ctx" /\ ~w.wrote /\ est[econn] = "open" /\ ~BridgeEndClosed(econn)

\* FinishHandshakeAndWait 107-136: write step 3 with the mutex held; on an
\* error return without marking ready; else start the goroutine that waits
\* for the final ACK, unlock and enter runWatchdog.  b.conn is not nil here,
\* StartHandshakeWithPort returns only after a dial has succeeded, and
\* json.Marshal of BridgeSettings has no failing input
FinishHandshakeAndWait ==
  /\ epc = "started"
  /\ \E w \in FinishWriteResults :
       /\ e2b' = [ e2b EXCEPT ![econn] =
                     IF w.wrote THEN @ \o Tagged(<<Marshal(EnclaveSettings), LF>>, NoTag) ELSE @ ]
       /\ hsLog' = IF w.wrote THEN Append(hsLog, <<"E", "w", "SET", econn>>) ELSE hsLog
       /\ IF w.res = "ok"
            THEN /\ egpc' = "reading"
                 /\ epc' = "newWatchdog"
            ELSE /\ epc' = "finishErr"
                 /\ egpc' = IF WritePending(w) THEN "writing" ELSE egpc
  /\ UNCHANGED <<hbVars, ioVars, relayVars, spliceVars, env, settingsIn, sentOther, cleanCancel, hsFault, budget, ctxDone, listener, backlog, nconn, owner, est, bst,
                 b2e, bridgeVars, groupVars, wdVars, ectx, econn, eready, eerr, ewait, ewdRet, ewd>>

\* WriteWithContext 36-49 after FinishHandshakeAndWait has returned the
\* context's error: the goroutine left behind makes its Write.  The settings
\* reach the bridge when both ends are still open; on a connection that Close
\* has closed in the meantime the Write fails and nothing is ever written
WriteWithContext_Late ==
  /\ egpc = "writing"
  /\ LET lands == est[econn] = "open" /\ ~BridgeEndClosed(econn) IN
       /\ e2b' = [ e2b EXCEPT ![econn] =
                     IF lands THEN @ \o Tagged(<<Marshal(EnclaveSettings), LF>>, NoTag) ELSE @ ]
       /\ hsLog' = IF lands THEN Append(hsLog, <<"E", "w", "SET", econn>>) ELSE hsLog
  /\ egpc' = "none"
  /\ UNCHANGED <<hbVars, ioVars, relayVars, spliceVars, env, settingsIn, sentOther, cleanCancel, hsFault, budget, ctxDone, listener, backlog, nconn, owner, est, bst,
                 b2e, bridgeVars, groupVars, wdVars, ectx, epc, econn, eready, eerr, ewait, ewdRet, ewd>>

\* runWatchdog 146-149: build the client watchdog; the goroutine that waits for
\* the final ACK runs beside it
runWatchdog_New ==
  /\ epc = "newWatchdog"
  /\ LET r == NewWatchdog(EnclaveSettings) IN
       epc' = IF r = "ok" THEN "awaitReady"
              ELSE IF r = "panic" THEN "panicked" ELSE "finishErr"
  /\ UNCHANGED <<hbVars, ioVars, relayVars, spliceVars, env, settingsIn, sentOther, cleanCancel, hsFault, budget, ctxDone, netVars, bridgeVars, groupVars, wdVars,
                 ectx, econn, egpc, eready, eerr, ewait, ewdRet, ewd, hsLog>>

\* the context the enclave application hands to StartHandshake and to
\* FinishHandshakeAndWait (examples/simple-enclave/main.go 74, 110) is
\* cancelled; nothing ties the signal to a call in progress
Enclave_Cancel ==
  /\ env # "hostile"
  /\ epc \notin { "off", "failed", "panicked" }
  /\ ~ectx
  /\ Faults < MaxFaults
  /\ ectx' = TRUE
  /\ UNCHANGED <<hbVars, ioVars, relayVars, spliceVars, env, settingsIn, sentOther, cleanCancel, hsFault, budget, ctxDone, netVars, bridgeVars, groupVars, wdVars,
                 epc, econn, egpc, eready, eerr, ewait, ewdRet, ewd, hsLog>>

\* runWatchdog 155-159: the select takes ctx.Done and FinishHandshakeAndWait returns ctx.Err()
runWatchdog_Cancelled ==
  /\ epc = "awaitReady"
  /\ ectx
  /\ epc' = "finishErr"
  /\ UNCHANGED <<hbVars, ioVars, relayVars, spliceVars, env, settingsIn, sentOther, cleanCancel, hsFault, budget, ctxDone, netVars, bridgeVars, groupVars, wdVars,
                 ectx, econn, egpc, eready, eerr, ewait, ewdRet, ewd, hsLog>>

\* Close 178-186: the application closes the handshake connection.  Close takes
\* the mutex, so it runs between the calls that hold it, and b.conn is set
\* once StartHandshakeWithPort has returned
BridgeHandshake_Close ==
  /\ env # "hostile"
  /\ epc \in { "started", "newWatchdog", "awaitReady", "wdDial", "wdConn", "wdSend", "finishErr" }
  /\ est[econn] = "open"
  /\ Faults < MaxFaults
  /\ est' = [ est EXCEPT ![econn] = "closed" ]
  /\ hsFault' = TRUE
  /\ UNCHANGED <<hbVars, ioVars, relayVars, spliceVars, env, settingsIn, sentOther, cleanCancel, budget, ctxDone, listener, backlog, nconn, owner, bst, e2b,
                 b2e, bridgeVars, groupVars, wdVars, enclaveVars, hsLog>>

\* FinishHandshakeAndWait 125: what the read of step 4 can return; on a
\* connection that Close has closed the read fails at once
FinalAckReads ==
  IF est[econn] = "closed"
    THEN ReadResults(<<>>, TRUE, ectx)
    ELSE ReadResults(b2e[econn], BridgeEndClosed(econn), ectx)

\* a goroutine that looks at the read error only and not at the frame
AwaitFinalAck_ChecksOnlyErr ==
  /\ egpc = "reading"
  /\ epc # "panicked"
  /\ \E r \in FinalAckReads :
       /\ b2e' = [ b2e EXCEPT ![econn] = SubSeq(@, r.k + 1, Len(@)) ]
       /\ eerr' = IF r.kind \in { "err", "ctx" } THEN "read" ELSE "nil"
       /\ hsLog' = IF r.line = ACK THEN Append(hsLog, <<"E", "r", "ACK", econn>>)
                  ELSE IF r.kind = "data" THEN Append(hsLog, <<"E", "r", "OTHER", econn>>)
                  ELSE hsLog
  /\ est' = [ est EXCEPT ![econn] = "closed" ]
  /\ eready' = TRUE
  /\ egpc' = "done"
  /\ UNCHANGED <<hbVars, ioVars, relayVars, spliceVars, env, settingsIn, sentOther, cleanCancel, hsFault, budget, ctxDone, listener, backlog, nconn, owner, bst, e2b,
                 bridgeVars, groupVars, wdVars, ectx, epc, econn, ewait, ewdRet, ewd>>

\* FinishHandshakeAndWait 123-134: wait for step 4, record the outcome, close, mark ready
AwaitFinalAck ==
  /\ egpc = "reading"
  /\ epc # "panicked"
  /\ \E r \in FinalAckReads :
       /\ b2e' = [ b2e EXCEPT ![econn] = SubSeq(@, r.k + 1, Len(@)) ]
       /\ eerr' = IF r.line # ACK THEN "missingAck"
                  ELSE IF r.kind \in { "err", "ctx" } THEN "read" ELSE "nil"
       /\ hsLog' = IF r.line = ACK THEN Append(hsLog, <<"E", "r", "ACK", econn>>)
                  ELSE IF r.kind = "data" THEN Append(hsLog, <<"E", "r", "OTHER", econn>>)
                  ELSE hsLog
  /\ est' = [ est EXCEPT ![econn] = "closed" ]
  /\ eready' = TRUE
  /\ egpc' = "done"
  /\ UNCHANGED <<hbVars, ioVars, relayVars, spliceVars, env, settingsIn, sentOther, cleanCancel, hsFault, budget, ctxDone, listener, backlog, nconn, owner, bst, e2b,
                 bridgeVars, groupVars, wdVars, ectx, epc, econn, ewait, ewdRet, ewd>>

\* WaitForBridgeSetup 140-143
WaitForBridgeSetup ==
  /\ ewait = "none"
  /\ eready
  /\ epc # "panicked"
  /\ ewait' = IF eerr = "nil" THEN "nil" ELSE "err"
  /\ UNCHANGED <<hbVars, ioVars, relayVars, spliceVars, env, settingsIn, sentOther, cleanCancel, hsFault, budget, ctxDone, netVars, bridgeVars, groupVars, wdVars,
                 ectx, epc, econn, egpc, eready, eerr, ewd, ewdRet, hsLog>>

\* runWatchdog 155-161: b.ready is closed, whatever b.err holds; enter StartClientSide
runWatchdog_Ready ==
  /\ epc = "awaitReady"
  /\ eready
  /\ epc' = "wdDial"
  /\ UNCHANGED <<hbVars, ioVars, relayVars, spliceVars, env, settingsIn, sentOther, cleanCancel, hsFault, budget, ctxDone, netVars, bridgeVars, groupVars, wdVars,
                 ectx, econn, egpc, eready, eerr, ewait, ewdRet, ewd, hsLog>>

\* StartClientSide 194-206: dial a heartbeat connection (a failed dial is retried after a backoff)
StartClientSide_Dial ==
  /\ epc = "wdDial"
  /\ NewConn("enclave")
  /\ ewd' = nconn + 1
  /\ epc' = "wdConn"
  /\ UNCHANGED <<hbVars, ioVars, relayVars, spliceVars, env, settingsIn, sentOther, cleanCancel, hsFault, budget, ctxDone, listener, e2b, b2e, bridgeVars, groupVars,
                 wdVars, ectx, econn, egpc, eready, eerr, ewait, ewdRet, hsLog>>

\* HandleConn 231 with Heartbeat 260 on the client: time.NewTicker panics when
\* half the interval is not positive.  Heartbeat is a goroutine of its own, so
\* it may reach NewTicker after the handler that started it has returned
Heartbeat_Client_NewTicker ==
  /\ epc \in { "wdDial", "wdConn", "wdSend" }
  /\ ewd # 0
  /\ HeartbeatTicker(EnclaveSettings) <= 0
  /\ epc' = "panicked"
  /\ UNCHANGED <<hbVars, ioVars, relayVars, spliceVars, env, settingsIn, sentOther, cleanCancel, hsFault, budget, ctxDone, netVars, bridgeVars, groupVars, wdVars,
                 ectx, econn, egpc, eready, eerr, ewait, ewdRet, ewd, hsLog>>

\* Heartbeat 259-271 on the client's connection: one frame with the enclave's
\* ID.  At most one frame of each side is in flight on a connection
\* (MaxHbWire); frames that arrive in one batch are followed in WdSpec
Heartbeat_Client ==
  /\ epc \in { "wdConn", "wdSend" }
  /\ HeartbeatTicker(EnclaveSettings) > 0
  /\ ~BridgeEndClosed(ewd)
  /\ Len(e2b[ewd]) + IdLen + 1 <= MaxHbWire
  /\ e2b' = [ e2b EXCEPT ![ewd] = @ \o Tagged(HeartbeatFrame(settingsIn.id), settingsIn.id) ]
  /\ UNCHANGED <<hbVars, ioVars, relayVars, spliceVars, env, settingsIn, sentOther, cleanCancel, hsFault, budget, ctxDone, listener, backlog, nconn, owner, est, bst,
                 b2e, bridgeVars, groupVars, wdVars, enclaveVars, hsLog>>

\* HandleConn 240-241 on the client: the frame carries the enclave's own ID
ClientFrameMatches(line) ==
  FromBytesOrNil(SubSeq(line, 1, Len(line) - 1)) = IdOf(settingsIn.id)

\* StartClientSide 206-208 with HandleConn 232-247 on the client's connection:
\* a frame of the bridge with the right ID resets the ticker and the handler
\* reads on; on a read error or the context's error the handler returns, the
\* connection is closed and the loop dials again; another frame is sent to
\* watchErrChan, where the handler waits for startTicker to take it; a read
\* that returns neither bytes nor an error makes HandleConn slice an empty
\* frame, and the deferred Close of 230 runs while the panic unwinds
StartClientSide_Lost ==
  /\ epc = "wdConn"
  /\ \E r \in ReadResults(b2e[ewd], BridgeEndClosed(ewd), ectx) :
       /\ b2e' = [ b2e EXCEPT ![ewd] = SubSeq(@, r.k + 1, Len(@)) ]
       /\ IF r.kind = "nilnil"
            THEN /\ epc' = "panicked"
                 /\ est' = [ est EXCEPT ![ewd] = "closed" ]
            ELSE IF r.kind = "data"
                   THEN /\ epc' = IF ClientFrameMatches(r.line) THEN epc ELSE "wdSend"
                        /\ UNCHANGED est
                   ELSE /\ est' = [ est EXCEPT ![ewd] = "closed" ]
                        /\ epc' = "wdDial"
  /\ UNCHANGED <<hbVars, ioVars, relayVars, spliceVars, env, settingsIn, sentOther, cleanCancel, hsFault, budget, ctxDone, listener, backlog, nconn, owner, bst, e2b,
                 bridgeVars, groupVars, wdVars, ectx, econn, egpc, eready, eerr, ewait, ewdRet, ewd, hsLog>>

\* the cases of the select of the client's startTicker that are ready; the
\* ticker of the client is due whenever no frame of the bridge has reset it for
\* one interval
ClientSelectReady ==
  (IF ectx THEN { "nil" } ELSE {})
    \cup { "timeout" }
    \cup (IF epc = "wdSend" THEN { "mismatch" } ELSE {})

\* StartClientSide 211 with startTicker 214-225 on the client: StartClientSide
\* returns nil on a done context, the timeout error or the handler's error, and
\* FinishHandshakeAndWait returns it; the dial loop is a goroutine of its own
\* and goes on.  A handler whose error was taken returns, its connection is
\* closed and the loop dials again
StartClientSide_startTicker ==
  /\ epc \in { "wdDial", "wdConn", "wdSend" }
  /\ ewdRet = "none"
  /\ \E choice \in ClientSelectReady :
       /\ ewdRet' = choice
       /\ IF choice = "mismatch"
            THEN /\ est' = [ est EXCEPT ![ewd] = "closed" ]
                 /\ epc' = "wdDial"
            ELSE UNCHANGED <<est, epc>>
  /\ UNCHANGED <<hbVars, ioVars, relayVars, spliceVars, env, settingsIn, sentOther, cleanCancel, hsFault, budget, ctxDone, listener, backlog, nconn, owner, bst, e2b,
                 b2e, bridgeVars, groupVars, wdVars, ectx, econn, egpc, eready, eerr, ewait, ewd, hsLog>>

\* ----------------------------------------------------- tunnel connections
\* one HandleConn of a server tunnel (A: the accepted TCP connection, B: the
\* VSOCK connection it dials) or of a client tunnel (A: the accepted VSOCK
\* connection, B: the TCP connection to the target)
Other(x) == IF x = "A" THEN "B" ELSE "A"

\* the far end of a connection writes bytes
Splice_PeerWrite(x) ==
  /\ spc \notin { "none", "returned" }
  /\ speer[x] = "open"
  /\ ~sdata[x]
  /\ sdata' = [ sdata EXCEPT ![x] = TRUE ]
  /\ UNCHANGED <<hbVars, ioVars, relayVars, coreVars, skind, spc, speer, sclose, scopy, sctx, sdeadline>>

\* the far end of a connection closes it
Splice_PeerClose(x) ==
  /\ spc \notin { "none", "returned" }
  /\ speer[x] = "open"
  /\ speer' = [ speer EXCEPT ![x] = "closed" ]
  /\ UNCHANGED <<hbVars, ioVars, relayVars, coreVars, skind, spc, sclose, sdata, scopy, sctx, sdeadline>>

\* ServerTunnel.Stop, or the context handed to ListenForTargetRequests, is cancelled
Splice_Cancel ==
  /\ spc \notin { "none", "returned" }
  /\ ~sctx
  /\ sctx' = TRUE
  /\ UNCHANGED <<hbVars, ioVars, relayVars, coreVars, skind, spc, speer, sclose, sdata, scopy, sdeadline>>

\* ClientTunnel.HandleConn 48: the deadline of requestCtx passes
Splice_Deadline ==
  /\ skind = "client"
  /\ spc # "returned"
  /\ ~sdeadline
  /\ sdeadline' = TRUE
  /\ UNCHANGED <<hbVars, ioVars, relayVars, coreVars, skind, spc, speer, sclose, sdata, scopy, sctx>>

\* ServerTunnel.HandleConn 57-63: dial the enclave; on failure return, the deferred
\* conn.Close runs; on success start the two copy goroutines (67-89)
ServerTunnel_Dial ==
  /\ skind = "server"
  /\ spc = "dial"
  /\ \/ /\ spc' = "splice"
        /\ speer' = [ speer EXCEPT !["B"] = "open" ]
        /\ scopy' = [ x \in Ends |-> "running" ]
        /\ UNCHANGED sclose
     \/ /\ spc' = "returned"
        /\ sclose' = [ sclose EXCEPT !["A"] = @ + 1 ]
        /\ UNCHANGED <<speer, scopy>>
  /\ UNCHANGED <<hbVars, ioVars, relayVars, coreVars, skind, sdata, sctx, sdeadline>>

\* ClientTunnel.HandleConn 51-59: read the target line from the VSOCK connection,
\* with no deadline; on a read error return, the deferred vsockConn.Close runs
ClientTunnel_ReadTarget ==
  /\ skind = "client"
  /\ spc = "readTarget"
  /\ IF sdata["A"]
       THEN /\ sdata' = [ sdata EXCEPT !["A"] = FALSE ]
            /\ spc' = "dial"
            /\ UNCHANGED sclose
       ELSE /\ speer["A"] = "closed"
            /\ spc' = "returned"
            /\ sclose' = [ sclose EXCEPT !["A"] = @ + 1 ]
            /\ UNCHANGED sdata
  /\ UNCHANGED <<hbVars, ioVars, relayVars, coreVars, skind, speer, scopy, sctx, sdeadline>>

\* ClientTunnel.HandleConn 64-74: DialContext under requestCtx; on failure return
ClientTunnel_Dial ==
  /\ skind = "client"
  /\ spc = "dial"
  /\ \/ /\ ~sctx /\ ~sdeadline
        /\ spc' = "writeAck"
        /\ speer' = [ speer EXCEPT !["B"] = "open" ]
        /\ UNCHANGED sclose
     \/ /\ spc' = "returned"
        /\ sclose' = [ sclose EXCEPT !["A"] = @ + 1 ]
        /\ UNCHANGED speer
  /\ UNCHANGED <<hbVars, ioVars, relayVars, coreVars, skind, sdata, scopy, sctx, sdeadline>>

\* ClientTunnel.HandleConn 76-80 and 83-105: write ACK to the VSOCK peer; on failure
\* return, both deferred Close calls run; on success start the two copy goroutines
ClientTunnel_WriteAck ==
  /\ skind = "client"
  /\ spc = "writeAck"
  /\ \/ /\ spc' = "splice"
        /\ scopy' = [ x \in Ends |-> "running" ]
        /\ UNCHANGED sclose
     \/ /\ speer["A"] = "closed"
        /\ spc' = "returned"
        /\ sclose' = [ x \in Ends |-> sclose[x] + 1 ]
        /\ UNCHANGED scopy
  /\ UNCHANGED <<hbVars, ioVars, relayVars, coreVars, skind, speer, sdata, sctx, sdeadline>>

\* io.CopyBuffer(dst, src) of one goroutine, x being src: a read that returns
\* bytes takes them from the socket and is followed by a write, which a far
\* end that has closed may refuse, ending the copy; a read at the end of the
\* stream ends the copy; otherwise the read blocks
CopyBuffer(x) ==
  /\ spc = "splice"
  /\ scopy[x] = "running"
  /\ IF sdata[x]
       THEN /\ sdata' = [ sdata EXCEPT ![x] = FALSE ]
            /\ \/ UNCHANGED scopy
               \/ /\ speer[Other(x)] = "closed"
                  /\ scopy' = [ scopy EXCEPT ![x] = "done" ]
       ELSE /\ speer[x] = "closed"
            /\ scopy' = [ scopy EXCEPT ![x] = "done" ]
            /\ UNCHANGED sdata
  /\ UNCHANGED <<hbVars, ioVars, relayVars, coreVars, skind, spc, speer, sclose, sctx, sdeadline>>

\* ServerTunnel.HandleConn 92-95 with the deferred conn.Close of 57;
\* ClientTunnel.HandleConn 108-110 with the deferred Close calls of 46 and 74:
\* group.Wait returns when both goroutines have returned
HandleConn_Wait ==
  /\ spc = "splice"
  /\ \A x \in Ends : scopy[x] = "done"
  /\ spc' = "returned"
  /\ sclose' = [ x \in Ends |-> IF x = "A" \/ skind = "client" THEN sclose[x] + 1 ELSE sclose[x] ]
  /\ UNCHANGED <<hbVars, ioVars, relayVars, coreVars, skind, speer, sdata, scopy, sctx, sdeadline>>

\* ---------------------------------------------------------- tunnel traffic
\* the bytes of one tunnel connection.  Server tunnel: A is the TCP client, B the
\* enclave's listener.  Client tunnel: A is the enclave application that dialed
\* the tunnel, through dialVsock of pkg/client or on its own, B is the target.
\* the payload the application at a far end writes, byte by byte
Payload(x) == [ i \in 1 .. MaxPayload |-> IF x = "A" THEN LF + i ELSE LF + MaxPayload + i ]

\* dialVsock 84: the target address and the newline
TargetLine == <<LF - 1, LF>>

\* the application at a far end writes the next byte of its payload; the target
\* may write as soon as it is connected, the enclave application once its target
\* line is out and, when it uses dialVsock, once dialVsock has returned
Relay_PeerWrite(x) ==
  /\ rpc # "none"
  /\ rwrote[x] < MaxPayload
  /\ IF x = "B"
       THEN rconnB
       ELSE rkind = "client" => (rapc = "open" \/ (~rwaits /\ rapc = "readAck"))
  /\ rin' = [ rin EXCEPT ![x] = @ \o Tagged(<<Payload(x)[rwrote[x] + 1]>>, NoTag) ]
  /\ rwrote' = [ rwrote EXCEPT ![x] = @ + 1 ]
  /\ UNCHANGED <<hbVars, ioVars, coreVars, spliceVars, rkind, rvsock, rwaits, rpc, rapc, rconnB, rout, rgot, racks, rlog>>

\* the application at a far end reads one byte from its connection
Relay_PeerRead(x) ==
  /\ rout[x] # <<>>
  /\ (rkind = "client" /\ x = "A") => rapc = "open"
  /\ rgot' = [ rgot EXCEPT ![x] = Append(@, Head(rout[x])[1]) ]
  /\ rout' = [ rout EXCEPT ![x] = Tail(@) ]
  /\ UNCHANGED <<hbVars, ioVars, coreVars, spliceVars, rkind, rvsock, rwaits, rpc, rapc, rconnB, rin, rwrote, racks, rlog>>

\* dialVsock 80-87: dial the tunnel and write the target line
dialVsock_WriteTarget ==
  /\ rkind = "client"
  /\ rapc = "writeTarget"
  /\ rin' = [ rin EXCEPT !["A"] = @ \o Tagged(TargetLine, NoTag) ]
  /\ rapc' = "readAck"
  /\ UNCHANGED <<hbVars, ioVars, coreVars, spliceVars, rkind, rvsock, rwaits, rpc, rconnB, rout, rgot, rwrote, racks, rlog>>

\* the peer gives up and closes, before it has written a target line or while
\* it waits for the response
Relay_PeerGivesUp ==
  /\ rkind = "client"
  /\ rapc \in {"writeTarget", "readAck"}
  /\ rapc' = "closed"
  /\ rvsock' = "closed"
  /\ UNCHANGED <<hbVars, ioVars, coreVars, spliceVars, rkind, rwaits, rpc, rconnB, rin, rout, rgot, rwrote, racks, rlog>>

\* dialVsock 88-95: read the response through a bufio.Reader made for this one
\* call and compare it with ACK; what the reader pulled beyond the newline is
\* dropped with it.  A peer that does not use dialVsock reads the two bytes only.
\* When HandleConn has returned without a response, its deferred Close ends the
\* read with an error.  No failure path closes the connection dialVsock dialed.
dialVsock_ReadAck ==
  /\ rkind = "client"
  /\ rapc = "readAck"
  /\ IF HasLF(rout["A"])
       THEN \E k \in FirstLF(rout["A"]) .. Len(rout["A"]) :
              /\ ~rwaits => k = FirstLF(rout["A"])
              /\ rout' = [ rout EXCEPT !["A"] = SubSeq(@, k + 1, Len(@)) ]
              /\ rapc' = IF Bytes(SubSeq(rout["A"], 1, FirstLF(rout["A"]))) = ACK
                           THEN "open" ELSE "failed"
       ELSE /\ rpc = "returned"
            /\ rout' = [ rout EXCEPT !["A"] = <<>> ]
            /\ rapc' = "failed"
  /\ UNCHANGED <<hbVars, ioVars, coreVars, spliceVars, rkind, rvsock, rwaits, rpc, rconnB, rin, rgot, rwrote, racks, rlog>>

\* ServerTunnel.HandleConn 57-89: dial the enclave and start the copies, or return
Relay_ServerDial ==
  /\ rkind = "server"
  /\ rpc = "dial"
  /\ \/ rpc' = "splice" /\ rconnB' = TRUE
     \/ rpc' = "returned" /\ UNCHANGED rconnB
  /\ UNCHANGED <<hbVars, ioVars, coreVars, spliceVars, rkind, rvsock, rwaits, rapc, rin, rout, rgot, rwrote, racks, rlog>>

\* ClientTunnel.HandleConn 51-62: read the target line through a bufio.Reader
\* that is used for this read only; on a read error return
Relay_ReadTarget ==
  /\ rkind = "client"
  /\ rpc = "readTarget"
  /\ IF HasLF(rin["A"])
       THEN /\ \E k \in FirstLF(rin["A"]) .. Len(rin["A"]) :
                 rin' = [ rin EXCEPT !["A"] = SubSeq(@, k + 1, Len(@)) ]
            /\ rpc' = "dial"
       ELSE /\ rapc = "closed"
            /\ rpc' = "returned"
            /\ UNCHANGED rin
  /\ UNCHANGED <<hbVars, ioVars, coreVars, spliceVars, rkind, rvsock, rwaits, rapc, rconnB, rout, rgot, rwrote, racks, rlog>>

\* a handler that acknowledges the request before it knows whether the target answers
Relay_Dial_AcksFirst ==
  /\ rkind = "client"
  /\ rpc = "dial"
  /\ rout' = [ rout EXCEPT !["A"] = @ \o Tagged(ACK, NoTag) ]
  /\ rlog' = rlog \o ACK
  /\ racks' = racks + 1
  /\ \/ rpc' = "splice" /\ rconnB' = TRUE
     \/ rpc' = "returned" /\ UNCHANGED rconnB
  /\ UNCHANGED <<hbVars, ioVars, coreVars, spliceVars, rkind, rvsock, rwaits, rapc, rin, rgot, rwrote>>

\* ClientTunnel.HandleConn 64-74: dial the target; on failure return
Relay_Dial ==
  /\ rkind = "client"
  /\ rpc = "dial"
  /\ \/ rpc' = "writeAck" /\ rconnB' = TRUE
     \/ rpc' = "returned" /\ UNCHANGED rconnB
  /\ UNCHANGED <<hbVars, ioVars, coreVars, spliceVars, rkind, rvsock, rwaits, rapc, rin, rout, rgot, rwrote, racks, rlog>>

\* ClientTunnel.HandleConn 76-105: one Write of ACK to the accepted connection,
\* then start the copies; a Write to a connection the peer has closed may fail,
\* and then HandleConn returns.  racks counts the calls of Write.
Relay_WriteAck ==
  /\ rkind = "client"
  /\ rpc = "writeAck"
  /\ racks' = racks + 1
  /\ \/ /\ rout' = [ rout EXCEPT !["A"] = @ \o Tagged(ACK, NoTag) ]
        /\ rlog' = rlog \o ACK
        /\ rpc' = "splice"
     \/ /\ rapc = "closed"
        /\ rpc' = "returned"
        /\ UNCHANGED <<rout, rlog>>
  /\ UNCHANGED <<hbVars, ioVars, coreVars, spliceVars, rkind, rvsock, rwaits, rapc, rconnB, rin, rgot, rwrote>>

\* the copy that reads from x has not returned
CopyRuns(x) == rpc = "splice" \/ (x = "A" /\ rpc = "copyA") \/ (x = "B" /\ rpc = "copyB")

\* HandleConn 100-110: a copy returns; group.Wait returns after the second one
CopyEnds(x) ==
  IF rpc = "splice" THEN (IF x = "A" THEN "copyB" ELSE "copyA") ELSE "returned"

\* io.CopyBuffer of one goroutine, x being the source: one Read of whatever has
\* arrived, one Write of it to the other connection.  On a client tunnel whose
\* peer has closed the accepted connection, the Write to it may fail with the
\* bytes read and none written, and the Read from it returns EOF once the
\* bytes that arrived are taken; either ends the copy
Relay_CopyBuffer(x) ==
  /\ CopyRuns(x)
  /\ \/ /\ rin[x] # <<>>
        /\ \E n \in 1 .. Len(rin[x]) :
             /\ rin' = [ rin EXCEPT ![x] = SubSeq(@, n + 1, Len(@)) ]
             /\ rout' = [ rout EXCEPT ![Other(x)] = @ \o SubSeq(rin[x], 1, n) ]
             /\ rlog' = IF x = "B" THEN rlog \o Bytes(SubSeq(rin[x], 1, n)) ELSE rlog
        /\ UNCHANGED rpc
     \/ /\ rin[x] # <<>>
        /\ x = "B" /\ rkind = "client" /\ rapc = "closed"
        /\ \E n \in 1 .. Len(rin[x]) :
             rin' = [ rin EXCEPT ![x] = SubSeq(@, n + 1, Len(@)) ]
        /\ rpc' = CopyEnds(x)
        /\ UNCHANGED <<rout, rlog>>
     \/ /\ rin[x] = <<>>
        /\ x = "A" /\ rkind = "client" /\ rapc = "closed"
        /\ rpc' = CopyEnds(x)
        /\ UNCHANGED <<rin, rout, rlog>>
  /\ UNCHANGED <<hbVars, ioVars, coreVars, spliceVars, rkind, rvsock, rwaits, rapc, rconnB, rgot, rwrote, racks>>

\* ----------------------------------------- context-aware reads and writes
\* enclave.go ReadBytesWithContext 107-145 and WriteWithContext 30-63, one call
\* followed step by step: the goroutine performs the blocking call, tests
\* ctx.Err(), sends the result unless the context is done, and closes its
\* channels; the caller waits in a select on ctx.Done and the result channel.

\* the bytes a peer writes during a read
IoBytes == { LF - 1, LF }

\* the peer writes one more byte while the reader is blocked
Io_PeerWrite(b) ==
  /\ ioCall = "read"
  /\ ioGo = "io"
  /\ ioPeer = "open"
  /\ Len(ioWire) < MaxReadLen
  /\ ioWire' = ioWire \o Tagged(<<b>>, NoTag)
  /\ UNCHANGED <<hbVars, coreVars, spliceVars, relayVars, ioCall, ioPeer, ioCtx, ioGo, ioUnder, ioChan, ioClosed, ioRet>>

\* the peer closes its end
Io_PeerClose ==
  /\ ioCall # "none"
  /\ ioPeer = "open"
  /\ ioPeer' = "closed"
  /\ UNCHANGED <<hbVars, coreVars, spliceVars, relayVars, ioCall, ioWire, ioCtx, ioGo, ioUnder, ioChan, ioClosed, ioRet>>

\* the context of the call is cancelled
Io_Cancel ==
  /\ ioCall # "none"
  /\ ~ioCtx
  /\ ioCtx' = TRUE
  /\ UNCHANGED <<hbVars, coreVars, spliceVars, relayVars, ioCall, ioWire, ioPeer, ioGo, ioUnder, ioChan, ioClosed, ioRet>>

\* ReadBytesWithContext 116-119: bufReader.ReadBytes(delim) returns the bytes up
\* to the first delimiter with a nil error, or, at the end of the stream, what
\* it has read with the read error.  The reader is made for this call: the
\* bytes its Read pulled from the socket beyond the delimiter are lost with it
ReadBytesWithContext_ReadBytes ==
  /\ ioCall = "read"
  /\ ioGo = "io"
  /\ IF HasLF(ioWire)
       THEN /\ ioUnder' = << [ data |-> Bytes(SubSeq(ioWire, 1, FirstLF(ioWire))), err |-> "nil" ] >>
            /\ \E k \in FirstLF(ioWire) .. Len(ioWire) :
                 ioWire' = SubSeq(ioWire, k + 1, Len(ioWire))
       ELSE /\ ioPeer = "closed"
            /\ ioUnder' = << [ data |-> Bytes(ioWire), err |-> "err" ] >>
            /\ ioWire' = <<>>
  /\ ioGo' = "check"
  /\ UNCHANGED <<hbVars, coreVars, spliceVars, relayVars, ioCall, ioPeer, ioCtx, ioChan, ioClosed, ioRet>>

\* WriteWithContext 38: writer.Write(data); a write to a connection the peer has
\* closed may fail or be accepted by the socket
WriteWithContext_Write ==
  /\ ioCall = "write"
  /\ ioGo = "io"
  /\ \E e \in (IF ioPeer = "open" THEN { "nil" } ELSE { "nil", "err" }) :
       ioUnder' = << [ data |-> <<>>, err |-> e ] >>
  /\ ioGo' = "check"
  /\ UNCHANGED <<hbVars, coreVars, spliceVars, relayVars, ioCall, ioWire, ioPeer, ioCtx, ioChan, ioClosed, ioRet>>

\* ReadBytesWithContext 123-126, WriteWithContext 42-44: the result is sent only
\* if ctx.Err() is nil; the channels have capacity 1, the sends do not block
Io_Send ==
  /\ ioGo = "check"
  /\ ioChan' = IF ioCtx THEN ioChan ELSE ioUnder
  /\ ioGo' = "close"
  /\ UNCHANGED <<hbVars, coreVars, spliceVars, relayVars, ioCall, ioWire, ioPeer, ioCtx, ioUnder, ioClosed, ioRet>>

\* ReadBytesWithContext 130-131, WriteWithContext 48: close the channels
Io_Close ==
  /\ ioGo = "close"
  /\ ioClosed' = TRUE
  /\ ioGo' = "done"
  /\ UNCHANGED <<hbVars, coreVars, spliceVars, relayVars, ioCall, ioWire, ioPeer, ioCtx, ioUnder, ioChan, ioRet>>

\* the select of the caller (ReadBytesWithContext 135-144, WriteWithContext
\* 53-62) takes any case that is ready: ctx.Done, a value that was sent, or the
\* zero value of a channel that was closed without a send
Io_Select ==
  /\ ioCall # "none"
  /\ ioRet = <<>>
  /\ \/ /\ ioCtx
        /\ ioRet' = << [ data |-> <<>>, err |-> "ctx" ] >>
        /\ UNCHANGED ioChan
     \/ /\ ioChan # <<>>
        /\ ioRet' = ioChan
        /\ ioChan' = <<>>
     \/ /\ ioChan = <<>>
        /\ ioClosed
        /\ ioRet' = << [ data |-> <<>>, err |-> "nil" ] >>
        /\ UNCHANGED ioChan
  /\ UNCHANGED <<hbVars, coreVars, spliceVars, relayVars, ioCall, ioWire, ioPeer, ioCtx, ioGo, ioUnder, ioClosed>>

\* --------------------------------------------------- watchdog connections
\* watchdog.go StartServerSide 164-179, StartClientSide 184-211, HandleConn
\* 228-248 and Heartbeat 258-273, followed by their goroutines: the loop that
\* accepts or dials, one HandleConn per connection, the Heartbeat goroutine each
\* HandleConn starts, and the goroutine of the ReadBytesWithContext call
\* HandleConn waits in.

\* a panic in any goroutine ends the process
HbAlive == hbStart # "panicked"

\* the context handed to StartServerSide or StartClientSide is cancelled
Hb_Cancel ==
  /\ hbRole # "none"
  /\ HbAlive
  /\ ~hbCtx
  /\ hbCtx' = TRUE
  /\ UNCHANGED <<coreVars, spliceVars, relayVars, ioVars, hbRole, hbStart, hbLoop, hbN, hbSock, hbFar, hbHandler, hbWriters, hbReaders, hbRead>>

\* startTicker 216-225 returns: the context is done, the interval has passed or
\* a handler reported a mismatch
startTicker_Return ==
  /\ hbStart = "running"
  /\ hbStart' = "returned"
  /\ UNCHANGED <<coreVars, spliceVars, relayVars, ioVars, hbRole, hbCtx, hbLoop, hbN, hbSock, hbFar, hbHandler, hbWriters, hbReaders, hbRead>>

\* the far end of a connection closes it
Hb_PeerClose(c) ==
  /\ HbAlive
  /\ hbFar[c] = "open"
  /\ hbFar' = [ hbFar EXCEPT ![c] = "closed" ]
  /\ UNCHANGED <<coreVars, spliceVars, relayVars, ioVars, hbRole, hbCtx, hbStart, hbLoop, hbN, hbSock, hbHandler, hbWriters, hbReaders, hbRead>>

\* HandleConn 229-233 starts on connection c: the deferred Close is registered,
\* Heartbeat is started, the first ReadBytesWithContext starts its goroutine
HandleConn_Start(c) ==
  /\ hbSock' = [ hbSock EXCEPT ![c] = "open" ]
  /\ hbFar' = [ hbFar EXCEPT ![c] = "open" ]
  /\ hbHandler' = [ hbHandler EXCEPT ![c] = "running" ]
  /\ hbWriters' = [ hbWriters EXCEPT ![c] = @ + 1 ]
  /\ hbReaders' = [ hbReaders EXCEPT ![c] = @ + 1 ]
  /\ hbN' = c
  /\ UNCHANGED hbRead

\* StartServerSide 167-177: the accept loop hands a connection to a new
\* HandleConn; the listener is closed when StartServerSide returns
AcceptLoop_Accept ==
  /\ hbRole = "server"
  /\ hbLoop = "accept"
  /\ hbStart = "running"
  /\ hbN < MaxHbConns
  /\ HandleConn_Start(hbN + 1)
  /\ UNCHANGED <<coreVars, spliceVars, relayVars, ioVars, hbRole, hbCtx, hbStart, hbLoop>>

\* StartClientSide 195-207: dial and call HandleConn on the connection; the
\* loop tests neither the context nor whether StartClientSide has returned
DialLoop_Dial ==
  /\ hbRole = "client"
  /\ HbAlive
  /\ hbLoop = "dial"
  /\ hbN < MaxHbConns
  /\ HandleConn_Start(hbN + 1)
  /\ hbLoop' = "handle"
  /\ UNCHANGED <<coreVars, spliceVars, relayVars, ioVars, hbRole, hbCtx, hbStart>>

\* StartClientSide 207-208: HandleConn has returned; Close the connection (it
\* is closed already) and go back to dial
DialLoop_Close ==
  /\ hbRole = "client"
  /\ HbAlive
  /\ hbLoop = "handle"
  /\ hbHandler[hbN] = "returned"
  /\ hbLoop' = "dial"
  /\ UNCHANGED <<coreVars, spliceVars, relayVars, ioVars, hbRole, hbCtx, hbStart, hbN, hbSock, hbFar, hbHandler, hbWriters, hbReaders, hbRead>>

\* ReadBytesWithContext 119-131: the ReadBytes of the reader goroutine fails,
\* because the far end closed or because HandleConn has closed the connection;
\* the goroutine sends the error unless it finds the context done, closes its
\* channels and ends
ReadBytes_Unblocked(c) ==
  /\ HbAlive
  /\ hbReaders[c] > 0
  /\ hbSock[c] = "closed" \/ hbFar[c] = "closed"
  /\ hbReaders' = [ hbReaders EXCEPT ![c] = @ - 1 ]
  /\ hbRead' = [ hbRead EXCEPT ![c] = IF hbCtx THEN "closed" ELSE "err" ]
  /\ UNCHANGED <<coreVars, spliceVars, relayVars, ioVars, hbRole, hbCtx, hbStart, hbLoop, hbN, hbSock, hbFar, hbHandler, hbWriters>>

\* the cases of the select of ReadBytesWithContext (134-144) that are ready in
\* HandleConn: the done context, the error the reader sent, or the zero values
\* of the channels the reader closed without a send
HandlerSelect(c) ==
  (IF hbCtx THEN { "ctx" } ELSE {})
    \cup (IF hbRead[c] = "err" THEN { "err" } ELSE {})
    \cup (IF hbRead[c] = "closed" THEN { "nilnil" } ELSE {})

\* HandleConn 232-240 and the deferred Close 230: on an error of
\* ReadBytesWithContext HandleConn returns and closes the connection; on
\* (nil, nil) it slices the empty frame and panics, and the deferred Close
\* closes the connection while the panic unwinds
HandleConn_Return(c) ==
  /\ HbAlive
  /\ hbHandler[c] = "running"
  /\ \E r \in HandlerSelect(c) :
       IF r = "nilnil"
         THEN /\ hbStart' = "panicked"
              /\ hbSock' = [ hbSock EXCEPT ![c] = "closed" ]
              /\ UNCHANGED hbHandler
         ELSE /\ hbHandler' = [ hbHandler EXCEPT ![c] = "returned" ]
              /\ hbSock' = [ hbSock EXCEPT ![c] = "closed" ]
              /\ UNCHANGED hbStart
  /\ UNCHANGED <<coreVars, spliceVars, relayVars, ioVars, hbRole, hbCtx, hbLoop, hbN, hbFar, hbWriters, hbReaders, hbRead>>

\* Heartbeat 260: time.NewTicker panics when half the interval is not positive
Heartbeat_Panic(c) ==
  /\ HbAlive
  /\ hbWriters[c] > 0
  /\ HeartbeatTicker(settings) <= 0
  /\ hbStart' = "panicked"
  /\ UNCHANGED <<coreVars, spliceVars, relayVars, ioVars, hbRole, hbCtx, hbLoop, hbN, hbSock, hbFar, hbHandler, hbWriters, hbReaders, hbRead>>

\* Heartbeat 262-271: the goroutine returns on ctx.Done, or at a tick whose
\* Write fails because the connection is closed on either side
Heartbeat_Return(c) ==
  /\ HbAlive
  /\ hbWriters[c] > 0
  /\ HeartbeatTicker(settings) > 0
  /\ hbCtx \/ hbSock[c] = "closed" \/ hbFar[c] = "closed"
  /\ hbWriters' = [ hbWriters EXCEPT ![c] = @ - 1 ]
  /\ UNCHANGED <<coreVars, spliceVars, relayVars, ioVars, hbRole, hbCtx, hbStart, hbLoop, hbN, hbSock, hbFar, hbHandler, hbReaders, hbRead>>

\* ------------------------------------------------------------------- spec
Next ==
  \/ Cancel
  \/ CreateBridge_Listen
  \/ CreateBridge_Accept
  \/ CreateBridge_AcceptError
  \/ CreateBridge_ReadAck
  \/ ReadTimeout
  \/ completeHandshake_WriteEnv
  \/ completeHandshake_ReadSettings
  \/ Run_Setup
  \/ Run_Watchdog
  \/ readyFunc_Write
  \/ readyFunc
  \/ Run_Wait
  \/ \E t \in Tunnels : Tunnel_Bind(t)
  \/ \E t \in Tunnels : Tunnel_Accept(t)
  \/ \E t \in Tunnels : Tunnel_Stop(t)
  \/ \E t \in Servers : Tunnel_CloseBeforeBind(t)
  \/ \E t \in Tunnels : Tunnel_AcceptError(t)
  \/ StartServerSide
  \/ Watchdog_Accept
  \/ \E c \in ConnIds : HandleConn_Read(c)
  \/ \E c \in ConnIds : HandleConn_Check(c)
  \/ Heartbeat_NewTicker
  \/ \E c \in ConnIds : Heartbeat_Server(c)
  \/ startTicker
  \/ Tick
  \/ Stray_Dial
  \/ \E c \in ConnIds : \E f \in StrayFrames : Stray_Write(c, f)
  \/ \E c \in ConnIds : Stray_Close(c)
  \/ Rogue_Listen
  \/ Rogue_Accept
  \/ \E c \in ConnIds : \E f \in RogueFrames : Rogue_Write(c, f)
  \/ \E c \in ConnIds : Rogue_Close(c)
  \/ setupConnection_Dial
  \/ setupConnection_WriteAck
  \/ StartHandshakeWithPort
  \/ FinishHandshakeAndWait
  \/ WriteWithContext_Late
  \/ runWatchdog_New
  \/ Enclave_Cancel
  \/ runWatchdog_Cancelled
  \/ BridgeHandshake_Close
  \/ AwaitFinalAck
  \/ WaitForBridgeSetup
  \/ runWatchdog_Ready
  \/ StartClientSide_Dial
  \/ Heartbeat_Client_NewTicker
  \/ Heartbeat_Client
  \/ StartClientSide_Lost
  \/ StartClientSide_startTicker

Spec == Init /\ [][Next]_vars


\* the watchdog server alone on a bound listener, as watchdog_test.go sets it up:
\* New has succeeded, StartServerSide is about to run, any peer may connect
WdInit ==
  /\ env = "hostile"
  /\ settingsIn \in SettingsJSON
  /\ settingsIn.id \in { 1, 2 }
  /\ settingsIn.interval >= 1
  /\ settingsIn.servers = 0 /\ settingsIn.clients = 0
  /\ settingsIn.level = 0 /\ settingsIn.error = 0
  /\ sentOther = FALSE
  /\ cleanCancel = FALSE
  /\ hsFault = FALSE
  /\ budget = MaxWdFrames
  /\ ctxDone = FALSE
  /\ listener = "open"
  /\ backlog = <<>>
  /\ nconn = 0
  /\ owner = [ c \in ConnIds |-> "none" ]
  /\ est = [ c \in ConnIds |-> "none" ]
  /\ bst = [ c \in ConnIds |-> "none" ]
  /\ e2b = [ c \in ConnIds |-> <<>> ]
  /\ b2e = [ c \in ConnIds |-> <<>> ]
  /\ bpc = "wait"
  /\ hsConn = 0
  /\ settings = Unmarshal(JSONEncode(settingsIn))
  /\ bridgeErr = "none"
  /\ bridgeListener = "init"
  /\ acceptErrs = 0
  /\ tunnel = [ t \in Tunnels |-> "none" ]
  /\ groupErr = "none"
  /\ tunnelErrs = [ t \in Tunnels |-> 0 ]
  /\ proxyClosed = [ t \in Tunnels |-> FALSE ]
  /\ ackSent = FALSE
  /\ wdState = "spawned"
  /\ wdResult = "none"
  /\ wdListener = "init"
  /\ elapsed = 0
  /\ tickPending = FALSE
  /\ sinceValid = 0
  /\ hpc = [ c \in ConnIds |-> "none" ]
  /\ hline = [ c \in ConnIds |-> <<>> ]
  /\ badRecv = FALSE
  /\ hsLog = <<>>
  /\ epc = "off"
  /\ econn = 0
  /\ egpc = "none"
  /\ eready = FALSE
  /\ eerr = "nil"
  /\ ewait = "none"
  /\ ewd = 0
  /\ ectx = FALSE
  /\ ewdRet = "none"
  /\ SpliceIdle
  /\ RelayIdle
  /\ IoIdle
  /\ HbIdle

WdNext ==
  \/ Cancel
  \/ StartServerSide
  \/ Watchdog_Accept
  \/ \E c \in ConnIds : HandleConn_Read(c)
  \/ \E c \in ConnIds : HandleConn_Check(c)
  \/ Heartbeat_NewTicker
  \/ \E c \in ConnIds : Heartbeat_Server(c)
  \/ startTicker
  \/ Tick
  \/ Stray_Dial
  \/ \E c \in ConnIds : \E f \in StrayFrames : Stray_Write(c, f)
  \/ \E c \in ConnIds : Stray_Close(c)

WdSpec == WdInit /\ [][WdNext]_vars

\* the handshake with the enclave's goroutines scheduled fairly: the goroutine
\* that waits for step 4 and the caller of WaitForBridgeSetup take every step
\* that stays possible; nothing is assumed about the bridge
EnclaveWaitSpec == Spec /\ WF_vars(AwaitFinalAck) /\ WF_vars(WaitForBridgeSetup)

\* the handshake with the caller of StartHandshakeWithPort scheduled fairly: it
\* takes every step of its loop that stays possible; nothing is assumed about
\* the bridge or about the moment of the cancellation
EnclaveStartSpec ==
  /\ Spec
  /\ WF_vars(setupConnection_Dial)
  /\ WF_vars(setupConnection_WriteAck)
  /\ WF_vars(StartHandshakeWithPort)

\* the handshake with CreateBridge taking every connection that waits on its
\* listener; no peer is forced to dial and no accept error is forced to happen
CreateWaitSpec == Spec /\ WF_vars(CreateBridge_Accept)

\* the bridge where Run waits on its group (bridge.go 172-181): the handshake
\* connection is used up and closed by the bridge, the settings are valid, the
\* watchdog is spawned, the configured tunnels are in state tst, and the enclave
\* that shook hands is gone
RunWaiting(tst) ==
  /\ env = "hostile"
  /\ settingsIn \in SettingsJSON
  /\ settingsIn.id = 1
  /\ settingsIn.interval \in 1 .. MaxInterval
  /\ settingsIn.level = 0 /\ settingsIn.error = 0
  /\ sentOther = FALSE
  /\ cleanCancel = FALSE
  /\ hsFault = FALSE
  /\ budget = MaxStrayFrames
  /\ ctxDone = FALSE
  /\ listener = "open"
  /\ backlog = <<>>
  /\ nconn = 1
  /\ owner = [ c \in ConnIds |-> IF c = 1 THEN "stray" ELSE "none" ]
  /\ est = [ c \in ConnIds |-> IF c = 1 THEN "open" ELSE "none" ]
  /\ bst = [ c \in ConnIds |-> IF c = 1 THEN "closed" ELSE "none" ]
  /\ e2b = [ c \in ConnIds |-> <<>> ]
  /\ b2e = [ c \in ConnIds |->
               IF c = 1 THEN Tagged(<<EnvDoc, LF>>, NoTag) \o Tagged(ACK, NoTag) ELSE <<>> ]
  /\ bpc = "wait"
  /\ hsConn = 1
  /\ settings = Unmarshal(JSONEncode(settingsIn))
  /\ bridgeErr = "none"
  /\ bridgeListener = "init"
  /\ acceptErrs = 0
  /\ tunnel = [ t \in Tunnels |-> IF t \in Configured(settings) THEN tst ELSE "none" ]
  /\ groupErr = "none"
  /\ tunnelErrs = [ t \in Tunnels |-> 0 ]
  /\ proxyClosed = [ t \in Tunnels |-> FALSE ]
  /\ ackSent = TRUE
  /\ wdState = "spawned"
  /\ wdResult = "none"
  /\ wdListener = "init"
  /\ elapsed = 0
  /\ tickPending = FALSE
  /\ sinceValid = 0
  /\ hpc = [ c \in ConnIds |-> "none" ]
  /\ hline = [ c \in ConnIds |-> <<>> ]
  /\ badRecv = FALSE
  /\ hsLog = <<<<"B", "r", "ACK", 1>>, <<"B", "w", "ENV", 1>>, <<"B", "r", "SET", 1>>, <<"B", "w", "ACK", 1>>>>
  /\ epc = "off"
  /\ econn = 0
  /\ egpc = "none"
  /\ eready = FALSE
  /\ eerr = "nil"
  /\ ewait = "none"
  /\ ewd = 0
  /\ ectx = FALSE
  /\ ewdRet = "none"

\* Run has just left readyFunc; whoever contacts the init port from now on is a
\* peer the bridge does not know
RestartInit == RunWaiting("spawned") /\ settingsIn.clients = 0 /\ SpliceIdle /\ RelayIdle /\ IoIdle /\ HbIdle

RestartNext ==
  \/ Cancel
  \/ Run_Wait
  \/ \E t \in Tunnels : Tunnel_Bind(t)
  \/ \E t \in Tunnels : Tunnel_Accept(t)
  \/ \E t \in Tunnels : Tunnel_Stop(t)
  \/ \E t \in Servers : Tunnel_CloseBeforeBind(t)
  \/ StartServerSide
  \/ Watchdog_Accept
  \/ \E c \in ConnIds : HandleConn_Read(c)
  \/ \E c \in ConnIds : HandleConn_Check(c)
  \/ Heartbeat_NewTicker
  \/ \E c \in ConnIds : Heartbeat_Server(c)
  \/ startTicker
  \/ Tick
  \/ Stray_Dial
  \/ \E c \in ConnIds : \E f \in StrayFrames : Stray_Write(c, f)
  \/ \E c \in ConnIds : Stray_Close(c)

\* every goroutine of the bridge that can take a step takes one in the end; the
\* ticker and the peers are not forced to act
RestartFairness ==
  /\ WF_vars(Run_Wait)
  /\ WF_vars(StartServerSide)
  /\ WF_vars(Watchdog_Accept)
  /\ WF_vars(startTicker)
  /\ \A t \in Tunnels : WF_vars(Tunnel_Bind(t)) /\ WF_vars(Tunnel_Stop(t))
  /\ \A t \in Servers : WF_vars(Tunnel_CloseBeforeBind(t))
  /\ \A c \in ConnIds : WF_vars(HandleConn_Read(c)) /\ WF_vars(HandleConn_Check(c))
  /\ WF_vars(Heartbeat_NewTicker)

RestartSpec == RestartInit /\ [][RestartNext]_vars /\ RestartFairness

\* a tunnel of the running bridge has accepted a connection and started
\* HandleConn on it; the rest of the bridge is left where Run waits
SpliceInit ==
  /\ RunWaiting("serving")
  /\ settingsIn.servers = 1
  /\ settingsIn.clients = 1
  /\ skind \in { "server", "client" }
  /\ spc = IF skind = "server" THEN "dial" ELSE "readTarget"
  /\ speer = [ x \in Ends |-> IF x = "A" THEN "open" ELSE "none" ]
  /\ sclose = [ x \in Ends |-> 0 ]
  /\ sdata = [ x \in Ends |-> FALSE ]
  /\ scopy = [ x \in Ends |-> "none" ]
  /\ sctx = FALSE
  /\ sdeadline = FALSE
  /\ RelayIdle
  /\ IoIdle
  /\ HbIdle

SpliceNext ==
  \/ \E x \in Ends : Splice_PeerWrite(x)
  \/ \E x \in Ends : Splice_PeerClose(x)
  \/ Splice_Cancel
  \/ Splice_Deadline
  \/ ServerTunnel_Dial
  \/ ClientTunnel_ReadTarget
  \/ ClientTunnel_Dial
  \/ ClientTunnel_WriteAck
  \/ \E x \in Ends : CopyBuffer(x)
  \/ HandleConn_Wait

\* the goroutines of HandleConn take every step that stays possible; the far
\* ends, the parent context and the clock are not forced to act
SpliceFairness ==
  /\ WF_vars(ServerTunnel_Dial)
  /\ WF_vars(ClientTunnel_ReadTarget)
  /\ WF_vars(ClientTunnel_Dial)
  /\ WF_vars(ClientTunnel_WriteAck)
  /\ WF_vars(HandleConn_Wait)
  /\ \A x \in Ends : WF_vars(CopyBuffer(x))

SpliceSpec == SpliceInit /\ [][SpliceNext]_vars /\ SpliceFairness

\* a tunnel of the running bridge has accepted a connection and started
\* HandleConn on it; the far ends have a payload to exchange
RelayInit ==
  /\ RunWaiting("serving")
  /\ settingsIn.servers = 1
  /\ settingsIn.clients = 1
  /\ SpliceIdle
  /\ IoIdle
  /\ HbIdle
  /\ rkind \in { "server", "client" }
  /\ rwaits \in BOOLEAN
  /\ rkind = "server" => rwaits
  /\ rpc = IF rkind = "server" THEN "dial" ELSE "readTarget"
  /\ rapc = IF rkind = "server" THEN "open" ELSE "writeTarget"
  /\ rvsock = IF rkind = "server" THEN "none" ELSE "open"
  /\ rconnB = FALSE
  /\ rin = [ x \in Ends |-> <<>> ]
  /\ rout = [ x \in Ends |-> <<>> ]
  /\ rgot = [ x \in Ends |-> <<>> ]
  /\ rwrote = [ x \in Ends |-> 0 ]
  /\ racks = 0
  /\ rlog = <<>>

RelayNext ==
  \/ \E x \in Ends : Relay_PeerWrite(x)
  \/ \E x \in Ends : Relay_PeerRead(x)
  \/ dialVsock_WriteTarget
  \/ Relay_PeerGivesUp
  \/ dialVsock_ReadAck
  \/ Relay_ServerDial
  \/ Relay_ReadTarget
  \/ Relay_Dial
  \/ Relay_WriteAck
  \/ \E x \in Ends : Relay_CopyBuffer(x)

RelaySpec == RelayInit /\ [][RelayNext]_vars

\* one call of ReadBytesWithContext or WriteWithContext on a connection of the
\* running bridge, its goroutine just started
IoInit ==
  /\ RunWaiting("serving")
  /\ settingsIn.servers = 1
  /\ settingsIn.clients = 1
  /\ SpliceIdle
  /\ RelayIdle
  /\ HbIdle
  /\ ioCall \in { "read", "write" }
  /\ ioWire = <<>>
  /\ ioPeer = "open"
  /\ ioCtx \in BOOLEAN
  /\ ioGo = "io"
  /\ ioUnder = <<>>
  /\ ioChan = <<>>
  /\ ioClosed = FALSE
  /\ ioRet = <<>>

IoNext ==
  \/ \E b \in IoBytes : Io_PeerWrite(b)
  \/ Io_PeerClose
  \/ Io_Cancel
  \/ ReadBytesWithContext_ReadBytes
  \/ WriteWithContext_Write
  \/ Io_Send
  \/ Io_Close
  \/ Io_Select

IoSpec == IoInit /\ [][IoNext]_vars

\* a watchdog that has just been started, in the server role (the bridge) or in
\* the client role (the enclave)
HbInit ==
  /\ RunWaiting("serving")
  /\ settingsIn.servers = 1
  /\ settingsIn.clients = 1
  /\ SpliceIdle
  /\ RelayIdle
  /\ IoIdle
  /\ hbRole \in { "server", "client" }
  /\ hbCtx = FALSE
  /\ hbStart = "running"
  /\ hbLoop = IF hbRole = "server" THEN "accept" ELSE "dial"
  /\ hbN = 0
  /\ hbSock = [ c \in HbConns |-> "none" ]
  /\ hbFar = [ c \in HbConns |-> "none" ]
  /\ hbHandler = [ c \in HbConns |-> "none" ]
  /\ hbWriters = [ c \in HbConns |-> 0 ]
  /\ hbReaders = [ c \in HbConns |-> 0 ]
  /\ hbRead = [ c \in HbConns |-> "none" ]

HbNext ==
  \/ Hb_Cancel
  \/ startTicker_Return
  \/ \E c \in HbConns : Hb_PeerClose(c)
  \/ AcceptLoop_Accept
  \/ DialLoop_Dial
  \/ DialLoop_Close
  \/ \E c \in HbConns : HandleConn_Return(c)
  \/ \E c \in HbConns : ReadBytes_Unblocked(c)
  \/ \E c \in HbConns : Heartbeat_Panic(c)
  \/ \E c \in HbConns : Heartbeat_Return(c)

HbSpec == HbInit /\ [][HbNext]_vars

\* ------------------------------------------------------------- properties
\* an entry of hsLog without the connection it was made on
FrameOf(e) == <<e[1], e[2], e[3]>>

InLog(e) == \E i \in 1 .. Len(hsLog) : FrameOf(hsLog[i]) = e

\* every b in the log follows an a on the same connection
Precedes(a, b) ==
  \A i \in 1 .. Len(hsLog) :
    FrameOf(hsLog[i]) = b
      => \E j \in 1 .. (i - 1) : FrameOf(hsLog[j]) = a /\ hsLog[j][4] = hsLog[i][4]

IsPrefix(p, q) == Len(p) <= Len(q) /\ SubSeq(q, 1, Len(p)) = p

\* the frames written on connection c, in order
WritesOn(c) ==
  LET w == SelectSeq(hsLog, LAMBDA e : e[2] = "w" /\ e[4] = c)
  IN  [ i \in 1 .. Len(w) |-> FrameOf(w[i]) ]

FourFrames ==
  << <<"E", "w", "ACK">>, <<"B", "w", "ENV">>, <<"E", "w", "SET">>, <<"B", "w", "ACK">> >>

Bound(t) == tunnel[t] \in { "listening", "serving", "stopped" }

\* C1: the frames written on the handshake connection are, in this order, the
\* enclave's ACK, the bridge's environment, the enclave's settings and the
\* bridge's ACK; the bridge writes the environment only after it has read an ACK
\* and its final ACK only after it has read and parsed the settings, and the
\* enclave writes its settings only after it has read the environment.
C1_HandshakeOrder ==
  /\ Precedes(<<"B", "r", "ACK">>, <<"B", "w", "ENV">>)
  /\ Precedes(<<"B", "r", "SET">>, <<"B", "w", "ACK">>)
  /\ Precedes(<<"B", "w", "ENV">>, <<"B", "w", "ACK">>)
  /\ Precedes(<<"E", "r", "ENV">>, <<"E", "w", "SET">>)
  /\ env = "coop" => \A c \in ConnIds : IsPrefix(WritesOn(c), FourFrames)
  /\ (env = "coop" /\ hsConn # 0 /\ econn # 0) => (econn = hsConn \/ est[hsConn] = "closed")

C1_Witness ==
  /\ env = "coop"
  /\ \E c \in ConnIds : WritesOn(c) = FourFrames
  /\ InLog(<<"E", "r", "ACK">>)

\* C2 (as the specification states it): whenever the bridge has written its final
\* ACK, every configured server and client tunnel has bound its listener.
C2_AckOnlyAfterAllBound ==
  ackSent => \A t \in Configured(settings) : Bound(t)

\* C3 (as the specification states it): with a cooperative enclave, a non-nil
\* enclave ID, a valid log level, no cancellation on either side, no read
\* deadline missed and the handshake not closed by the application, the
\* handshake ends in no error and no panic: the bridge does not fail before it
\* has written the final ACK, the enclave does not fail before its handshake is
\* marked ready, and WaitForBridgeSetup returns no error.
C3_ValidSettingsReachReady ==
  (env = "coop" /\ settingsIn.id # 0 /\ settingsIn.level = 0 /\ ~ctxDone /\ ~ectx /\ ~hsFault)
    => /\ ~ackSent => bpc \notin { "failed", "runErr", "panicked" }
       /\ ~eready => epc \notin { "failed", "finishErr", "panicked" }
       /\ ewait # "err"

\* C4 (as the specification states it): after a first frame that is not ACK the
\* bridge keeps listening on the init port.
C4_NonAckKeepsListening ==
  InLog(<<"B", "r", "OTHER">>) => listener = "open"

\* C4 (amended): after a first frame that is not ACK, CreateBridge has closed that
\* connection and the init listener and returned an error; no later connection is
\* accepted and no handshake follows.
C4_NonAckIsFatal ==
  InLog(<<"B", "r", "OTHER">>)
    => /\ bpc = "failed"
       /\ bridgeErr = "notAck"
       /\ listener = "closed"
       /\ bst[hsConn] = "closed"
       /\ hsLog = << <<"B", "r", "OTHER", hsConn>> >>
       /\ \A c \in ConnIds : bst[c] # "open"

C4_Witness ==
  /\ InLog(<<"B", "r", "OTHER">>)
  /\ \E c \in ConnIds : c # hsConn /\ est[c] = "open"

\* C5 (as the specification states it): when the settings the bridge has read
\* carry a non-empty error field, no tunnel and no watchdog is started and no
\* final ACK is written.
C5_ErrorFieldRejects ==
  (env = "hostile" /\ ErrorKey(JSONEncode(settingsIn)) = 1 /\ InLog(<<"B", "r", "SET">>))
    => /\ \A t \in Tunnels : tunnel[t] = "none"
       /\ wdState = "none"
       /\ ~ackSent

\* C6: when CreateBridge has failed during the handshake (ACK missing or late,
\* environment not written, settings not read in time or not parsed), the init
\* listener and the handshake connection are closed and no tunnel and no watchdog
\* has been started; a first frame that is not ACK always ends in that state.
C6_FailureReleasesAll ==
  /\ (hsConn # 0 /\ bridgeErr \in { "readAck", "notAck", "writeEnv", "readConfig", "unmarshal" })
       => /\ bpc = "failed"
          /\ listener = "closed"
          /\ bst[hsConn] = "closed"
          /\ \A c \in ConnIds : bst[c] \notin { "queued", "open" }
          /\ \A t \in Tunnels : tunnel[t] = "none"
          /\ wdState = "none"
          /\ ~ackSent
  /\ InLog(<<"B", "r", "OTHER">>) => bpc = "failed"

C6_Witness ==
  /\ bpc = "failed"
  /\ bridgeErr = "unmarshal"
  /\ InLog(<<"B", "w", "ENV">>)

\* C7 (as the specification states it): a tunnel listener exists only once the
\* bridge has written its final ACK.
C7_NoTunnelBeforeAck ==
  \A t \in Tunnels : tunnel[t] \in { "listening", "serving" } => ackSent

\* C7 (amended): a tunnel is spawned only after the bridge has read and parsed the
\* settings, and the final ACK is written only after every configured tunnel has
\* been spawned; a tunnel may bind and accept before the final ACK.
C7_TunnelsAfterSettings ==
  /\ \A t \in Tunnels : tunnel[t] # "none" => (InLog(<<"B", "r", "SET">>) /\ t \in Configured(settings))
  /\ ackSent => \A t \in Configured(settings) : tunnel[t] # "none"

C7_Witness ==
  /\ ackSent
  /\ \E t \in Clients : tunnel[t] = "serving"
  /\ \E t \in Servers : tunnel[t] = "serving"

\* C8: once CreateBridge has succeeded the init listener is the one the watchdog
\* accepts on; closing the handshake connection leaves it open, and it is closed
\* only when the watchdog has returned.
C8_ListenerReused ==
  /\ wdState # "none" => (wdListener = "init" /\ bridgeListener = "init")
  /\ InLog(<<"B", "r", "SET">>) => (listener = "closed" => wdState = "returned")
  /\ (bpc = "wait" /\ wdState # "returned") => (listener = "open" /\ bst[hsConn] = "closed")

C8_Witness ==
  /\ bpc = "wait"
  /\ ackSent
  /\ bst[hsConn] = "closed"
  /\ listener = "open"
  /\ \E c \in ConnIds : c # hsConn /\ hpc[c] = "reading"

\* C9: while StartServerSide runs, its ticker is due exactly when one interval has
\* passed since the start or since the last valid heartbeat, and when it returns
\* with the interval over, no cancellation and no mismatch pending, it returns
\* ErrEnclaveHeartbeatTimeout.
C9_HeartbeatTimeout ==
  /\ [](wdState = "running"
          => /\ sinceValid <= settings.interval
             /\ (sinceValid = settings.interval => tickPending))
  /\ [][(/\ wdState = "running"
         /\ wdState' = "returned"
         /\ sinceValid = settings.interval
         /\ ~GroupDone
         /\ \A c \in ConnIds : hpc[c] # "sending")
          => wdResult' = "timeout"]_vars

C9_Witness ==
  /\ wdState = "returned"
  /\ wdResult = "timeout"
  /\ groupErr = "timeout"
  /\ sinceValid = settings.interval
  /\ \E c \in ConnIds : hpc[c] = "reading" /\ est[c] = "open" /\ e2b[c] = <<>>

\* C10 (as the specification states it): once a heartbeat frame with another ID
\* has been read from a watchdog connection, StartServerSide returns
\* ErrEnclaveIDMismatch: it has returned it, or it is still running and a handler
\* holds that frame.
C10_MismatchAlwaysReported ==
  badRecv
    => \/ wdResult = "mismatch"
       \/ /\ wdState = "running"
          /\ \E c \in ConnIds : hpc[c] \in { "got", "sending" } /\ ~FrameMatches(hline[c])

\* C11 (as the specification states it): while the only frames written to the
\* watchdog connections are heartbeats carrying the expected enclave ID, no
\* handler reports a mismatch and StartServerSide does not return
\* ErrEnclaveIDMismatch.
C11_ValidHeartbeatsAccepted ==
  ~sentOther
    => /\ wdResult # "mismatch"
       /\ \A c \in ConnIds : hpc[c] # "sending"

\* C12 (as the specification states it): when the context is cancelled while
\* no tick is pending and no handler holds an unhandled frame, the watchdog
\* process stays alive and what StartServerSide returns is nil.
C12_CancelReturnsNil ==
  cleanCancel
    => /\ Alive
       /\ wdState = "returned" => wdResult = "nil"

\* Run has called watchdog.New
NewCalled ==
  \/ bpc \in { "ready", "ackOk", "ackErr", "wait", "done", "panicked" }
  \/ bpc = "runErr" /\ bridgeErr \in { "idRequired", "ack" }

\* C13 (as the specification states it): once watchdog.New has been called, it
\* has failed with ErrEnclaveIDRequired and built no watchdog when the enclave
\* ID is the nil UUID, and it has built the watchdog when the ID is any other.
C13_NewChecksTheID ==
  NewCalled
    => IF IdOf(settings.id) = NilID
         THEN bridgeErr = "idRequired" /\ wdState = "none"
         ELSE wdState # "none"

\* the first frame waiting on a wire
FirstFrame(w) == Bytes(SubSeq(w, 1, FirstLF(w)))

\* after the handshake a peer has contacted the init port and a frame that is
\* not the expected heartbeat waits for the handler of its connection
RestartContact ==
  /\ bpc = "wait"
  /\ \E c \in ConnIds :
       /\ c # hsConn
       /\ hpc[c] = "reading"
       /\ HasLF(e2b[c])
       /\ ~FrameMatches(FirstFrame(e2b[c]))

\* Run is over: it returned an error, or it returned after the context was
\* cancelled, or the process crashed
RunEnded ==
  \/ bpc = "done" /\ (bridgeErr # "none" \/ ctxDone)
  \/ bpc = "panicked"

\* C14 (as the specification states it): once the handshake is complete, a peer
\* that contacts the init port with the handshake ACK or with a heartbeat of
\* another enclave ID ends the bridge: the frame reaches a handler, the
\* watchdog returns nil only when the group context was cancelled first, Run
\* ends, and the bridge serves no second handshake: it accepts no handshake
\* connection, reads and writes no handshake frame, and all it writes to a
\* connection is the heartbeat of its watchdog.
C14_RestartEndsRun ==
  /\ RestartContact ~> RunEnded
  /\ [](wdResult = "nil" => (ctxDone \/ groupErr # "none"))
  /\ [][ /\ hsLog' = hsLog
         /\ hsConn' = hsConn
         /\ \A c \in ConnIds :
              b2e'[c] # b2e[c]
                => b2e'[c] = b2e[c] \o Tagged(HeartbeatFrame(settings.id), settings.id) ]_vars

\* C15: WaitForBridgeSetup returns only after the goroutine of
\* FinishHandshakeAndWait has read; it returns nil when the frame read was
\* exactly ACK, and a non-nil error when the read failed, was cancelled or
\* returned anything else.
C15_NilIffFinalAck ==
  /\ ewait # "none" => egpc = "done"
  /\ ewait = "nil" => (InLog(<<"E", "r", "ACK">>) /\ ~InLog(<<"E", "r", "OTHER">>))
  /\ ewait = "err" => ~InLog(<<"E", "r", "ACK">>)

\* the peer answered the settings with a complete frame that is not ACK, the
\* goroutine has read it and WaitForBridgeSetup has returned an error
C15_Witness ==
  /\ ewait = "err"
  /\ egpc = "done"
  /\ InLog(<<"E", "r", "OTHER">>)

\* C16 (as the specification states it): once the enclave is in the heartbeat
\* loop of StartClientSide, it has read the final ACK and closed the handshake
\* connection; when the final frame was missing or was not ACK it is not there.
C16_HeartbeatsOnlyAfterFinalAck ==
  epc \in { "wdDial", "wdConn" }
    => /\ InLog(<<"E", "r", "ACK">>)
       /\ eerr = "nil"
       /\ est[econn] = "closed"

\* C17 (as the specification states it): while the enclave waits for the final
\* ACK, the bridge delivers a frame or closes the connection, or else
\* WaitForBridgeSetup returns an error in the end.
C17_FinalAckWaitEnds ==
  (egpc = "reading")
    ~> \/ ewait = "err"
       \/ \E c \in ConnIds : c = econn /\ (bst[c] = "closed" \/ HasLF(b2e[c]))

\* C18 (as the specification states it): when HandleConn has returned, it has
\* closed the accepted connection exactly once and, where the dial succeeded,
\* the dialed connection exactly once.
C18_BothClosedOnce ==
  spc = "returned"
    => /\ sclose["A"] = 1
       /\ speer["B"] # "none" => sclose["B"] = 1

\* C19 (as the specification states it): once one copy direction has returned
\* or the parent context is cancelled, the splice ends: HandleConn returns.
C19_FirstExitEndsSplice ==
  (spc = "splice" /\ (sctx \/ \E x \in Ends : scopy[x] = "done"))
    ~> (spc = "returned")

\* C20 (as the specification states it): once the requestTimeout of a
\* client-tunnel connection has expired, HandleConn returns and both
\* connections are closed.
C20_DeadlineEndsConnection ==
  (skind = "client" /\ sdeadline)
    ~> (spc = "returned" /\ sclose["A"] >= 1 /\ (speer["B"] # "none" => sclose["B"] >= 1))

\* C21 (as the specification states it): what the application at one end of a
\* spliced tunnel has received is, at every moment, a prefix of what the
\* application at the other end has written: in order, nothing lost, nothing
\* twice, nothing changed, in both directions.
C21_RelayedInOrder ==
  \A x \in Ends : IsPrefix(rgot[Other(x)], Payload(x))

\* C22: on a client-tunnel connection HandleConn calls Write with ACK at most
\* once; it has done so once the dial of the target has succeeded, and never
\* without that dial; ACK is the first thing it writes to the
\* accepted connection, ahead of every byte of the target; when the target line
\* could not be read or the dial failed it returns with nothing written.
C22_AckIffDialed ==
  rkind = "client"
    => /\ racks <= 1
       /\ racks = 1 => rconnB
       /\ (rconnB /\ rpc # "writeAck") => racks = 1
       /\ rlog # <<>> => IsPrefix(ACK, rlog)
       /\ (rpc = "returned" /\ ~rconnB) => (racks = 0 /\ rlog = <<>>)

\* the target was dialed, ACK was written once and target bytes followed it
C22_Witness ==
  /\ rkind = "client"
  /\ rconnB
  /\ racks = 1
  /\ Len(rlog) > Len(ACK)

\* C23 (as the specification states it): once the root context is cancelled
\* while Run waits on its group, every goroutine of the bridge ends: the tunnels
\* have stopped, the watchdog has returned, no connection handler of the
\* watchdog is left running, and every connection the bridge accepted is closed.
C23_CancelEndsEveryTask ==
  ctxDone
    ~> \/ bpc = "panicked"
       \/ /\ wdState = "returned"
          /\ \A t \in Tunnels : tunnel[t] \in { "none", "failed", "stopped" }
          /\ \A c \in ConnIds : hpc[c] \in { "none", "done" }
          /\ \A c \in ConnIds : bst[c] \in { "none", "closed" }

\* C24 (as the specification states it): once the root context is cancelled, no
\* step hands a newly accepted connection to a handler: the watchdog's accept
\* loop starts no HandleConn and no client tunnel begins to serve a connection.
C24_NoAcceptAfterCancel ==
  [][ ctxDone
        => /\ \A c \in ConnIds : hpc[c] = "none" => hpc'[c] = "none"
           /\ \A t \in Tunnels :
                (t[1] = "client" /\ tunnel[t] = "listening") => tunnel'[t] # "serving" ]_vars

\* C25 (as the specification states it): when Run returns after a tunnel or
\* the watchdog has returned an error, it returns the first error of the group
\* (the root context not being cancelled and the enclave ID being a valid one,
\* so that watchdog.New does not fail).
C25_FirstErrorReturned ==
  [][ (/\ groupErr # "none"
       /\ ~ctxDone
       /\ IdOf(settings.id) # NilID
       /\ bpc \notin { "done", "runErr" }
       /\ bpc' \in { "done", "runErr" })
        => bridgeErr' = groupErr ]_vars

\* C26 (as the specification states it): when Run has returned after the root
\* context was cancelled, no tunnel having failed to bind and the watchdog
\* having returned nil, what Run returned is nil, whatever tunnels are
\* configured.
C26_CancelOnlyExitIsNil ==
  (/\ bpc = "done"
   /\ ctxDone
   /\ wdResult = "nil"
   /\ \A t \in Tunnels : tunnel[t] # "failed")
    => bridgeErr = "none"

\* C27 (as the specification states it): what ReadBytesWithContext returns with
\* a nil error is data that ends in the delimiter; under no interleaving does it
\* return a nil error with data that lacks the delimiter.
C27_NilErrorMeansDelimited ==
  (ioCall = "read" /\ ioRet # <<>> /\ ioRet[1].err = "nil")
    => /\ ioRet[1].data # <<>>
       /\ ioRet[1].data[Len(ioRet[1].data)] = LF

\* C28 (as the specification states it): WriteWithContext returns nil only if
\* the underlying Write has completed without error.
C28_NilMeansWritten ==
  (ioCall = "write" /\ ioRet # <<>> /\ ioRet[1].err = "nil")
    => (ioUnder # <<>> /\ ioUnder[1].err = "nil")

\* C29 (as the specification states it): when the context is cancelled while
\* CreateBridge waits in Accept, CreateBridge stops waiting.
C29_CancelEndsAccept ==
  (ctxDone /\ bpc = "accept") ~> (bpc # "accept")

\* C30 (as the specification states it): a client tunnel whose Accept has
\* failed with an error other than the closing of its listener has returned
\* that error to the group.
C30_AcceptFailureIsFatal ==
  \A t \in Clients :
    tunnelErrs[t] > 0 => (tunnel[t] = "failed" /\ groupErr # "none")

\* C31 (as the specification states it): at every moment every open watchdog
\* connection has exactly one Heartbeat goroutine and exactly one reader, and a
\* connection whose HandleConn has returned has neither.
C31_OneWriterOneReader ==
  \A c \in HbConns :
    /\ hbSock[c] = "open" => (hbWriters[c] = 1 /\ hbReaders[c] = 1)
    /\ hbHandler[c] = "returned" => (hbWriters[c] = 0 /\ hbReaders[c] = 0)

\* C32 (as the specification states it): the enclave's handshake never waits
\* on the network while it holds its mutex.
C32_NoIOUnderMutex ==
  ~(MutexHeld /\ BlockedInRead)


\* C33 (as the specification states it): while the only bytes written to the
\* watchdog connections are 17-byte heartbeat frames of the expected enclave
\* ID, whatever bytes the ID holds and however the frames are batched, every
\* frame a handler takes from the stream is exactly one such heartbeat frame.
C33_EveryFrameIsOneHeartbeat ==
  ~sentOther
    => \A c \in ConnIds :
         hpc[c] \in { "got", "sending" } => hline[c] = HeartbeatFrame(settings.id)


\* C34 (as the specification states it): under every interleaving of
\* cancellation with a handler's read, HandleConn never strips the delimiter
\* from an empty frame: no handler is left with a read that returned neither
\* bytes nor an error.
C34_NoEmptyFrameStripped ==
  \A c \in ConnIds : ~(hpc[c] = "panicked" /\ hline[c] = <<>>)


\* C35 (as the specification states it): every HandleConn that has detected an
\* enclave-ID mismatch returns in the end and closes its connection, also when
\* startTicker has already returned or another handler has reported first
\* (unless the process has crashed meanwhile).
C35_MismatchHandlerReturns ==
  \A c \in ConnIds :
    (hpc[c] = "sending") ~> (bpc = "panicked" \/ (hpc[c] = "done" /\ bst[c] = "closed"))


\* C36 (as the specification states it, in the case of the early failures it
\* names): when FinishHandshakeAndWait has returned an error before it started
\* the goroutine that waits for step 4, WaitForBridgeSetup returns in the end.
C36_WaitReturnsAfterFinish ==
  (epc = "finishErr" /\ egpc \in { "none", "writing" }) ~> (ewait # "none")


\* C37 (as the specification states it): when the context is cancelled while
\* StartHandshakeWithPort dials or retries, the call returns with an error
\* after finitely many steps.
C37_CancelEndsStartHandshake ==
  (ectx /\ epc \in { "dial", "writeAck", "readEnv" }) ~> (epc = "failed")


\* C38 (as the specification states it): when Run has returned an error before
\* it waits on its group, for an invalid logger level or for a nil enclave ID,
\* no resource remains open: the handshake connection and the init listener
\* are closed and no tunnel is listening.
C38_EarlyRunErrorReleasesAll ==
  (bpc = "runErr" /\ bridgeErr \in { "level", "idRequired" })
    => /\ bst[hsConn] = "closed"
       /\ listener = "closed"
       /\ \A t \in Tunnels : tunnel[t] \notin { "listening", "serving" }


\* C39 (as the specification states it): once StartClientSide has returned, its
\* dial goroutine dials no more; and while it runs, the connection it lost is
\* closed before it dials the next one.
C39_NoDialAfterReturn ==
  [][ /\ (hbRole = "client" /\ hbStart = "returned") => hbN' = hbN
      /\ (hbRole = "client" /\ hbN' # hbN /\ hbN > 0) => hbSock[hbN] = "closed" ]_vars


\* C40 (as the specification states it): whenever dialVsock has failed after
\* its VSOCK dial succeeded (write error, read error, or a response that is
\* not ACK), it has closed the VSOCK connection before it returned the error.
C40_FailedDialClosesVsock ==
  (rkind = "client" /\ rapc = "failed") => rvsock = "closed"

====
